---- MODULE Spec2Model ----
(***************************************************************************)
(* The template compiler of chameleon (src/chameleon/compiler.py).         *)
(*                                                                         *)
(* Part 1 models the compiler: the node tree, the compiler's own state     *)
(* (expression cache, scope stack, translation-block stack) and one        *)
(* operator per visit_* method, which returns the statements the method    *)
(* emits.  Part 2 models the run of the emitted statements against the     *)
(* dynamic context (econtext), the propagating context (rcontext) and the  *)
(* output stream, one action per statement form.                           *)
(*                                                                         *)
(* Python strings are sequences of one-character strings, so that          *)
(* mangle() and the whitespace reduction act on characters.                *)
(***************************************************************************)
EXTENDS Naturals, Integers, Sequences, FiniteSets, TLC

VARIABLES
  code,     \* the compiled module: function name -> statements of its body
  ctl,      \* control stack of the running program, innermost block first
  frames,   \* call stack, outermost frame first
  dicts,    \* the mapping objects (econtext / rcontext and their copies)
  fns,      \* the function objects made by nested FunctionDef statements
  stream,   \* the output list every render function receives
  exc,      \* the exception being propagated, "" when none
  marks,    \* observer: the constructs entered and not yet left
  ev,       \* observer: what the last step did
  cache,    \* compile time: ExpressionCompiler.cache
  emitted,  \* compile time: the statements returned by the last compilation
  compiled, \* compile time: the compilations made so far, oldest first
  template, \* the node tree given to Compiler.__call__
  compiler, \* the state of the Compiler instance after the call
  module,   \* the namespace of the compiled module, shared by all its calls
  turn,     \* the render call whose statements run now
  parked    \* the state of the render calls that are not running now

vars == <<code, ctl, frames, dicts, fns, stream, exc, marks, ev,
          cache, emitted, compiled, template, compiler, module, turn, parked>>

(***************************************************************************)
(* Bounds of the model.                                                    *)
(***************************************************************************)
MaxItems == 2        \* a Repeat runs over 0 .. MaxItems items
MaxCompilations == 3 \* expression compilations in one compiler instance

(***************************************************************************)
(* Run-time values.  One record shape for all of them: t is the Python     *)
(* type, s a string, n a number, l a list of strings.                      *)
(***************************************************************************)
V(t, s, n, l) == [t |-> t, s |-> s, n |-> n, l |-> l]
StrV(s)   == V("str", s, 0, <<>>)
NoneV     == V("none", <<>>, 0, <<>>)
MarkerV   == V("marker", <<>>, 0, <<>>)
IntV(n)   == V("int", <<>>, n, <<>>)
ListV(l)  == V("list", <<>>, 0, l)
FnV(n)    == V("function", <<>>, n, <<>>)
MacroV(s) == V("macro", s, 0, <<>>)
ExtV(s)   == V("external", s, 0, <<>>)
BoundV    == V("method", <<>>, 0, <<>>)

EmptyMap == [k \in {} |-> NoneV]

COMPILER_INTERNALS_OR_DISALLOWED ==
  { <<"s","t","r","e","a","m">>, <<"a","p","p","e","n","d">>,
    <<"e","c","o","n","t","e","x","t">>, <<"r","c","o","n","t","e","x","t">>,
    <<"t","r","a","n","s","l","a","t","e">>, <<"d","e","c","o","d","e">>,
    <<"c","o","n","v","e","r","t">>, <<"s","t","r">>, <<"l","e","n">> }

\* set(builtins.__dict__): the names of the host builtins (a sample of them)
global_fallback ==
  { <<"l","e","n">>, <<"s","t","r">>, <<"i","d">>, <<"m","a","x">> }

\* Compiler.exceptions, with the builtin classes each one covers
exceptions ==
  {"NameError", "ValueError", "AttributeError", "LookupError", "TypeError"}

Superclass(c) ==
  CASE c = "KeyError" -> "LookupError"
    [] c = "IndexError" -> "LookupError"
    [] c = "UnboundLocalError" -> "NameError"
    [] OTHER -> c

\* Compiler.defaults
defaults ==
  { <<"t","r","a","n","s","l","a","t","e">>, <<"d","e","c","o","d","e">>,
    <<"c","o","n","v","e","r","t">> }

RepeatKey == <<"r","e","p","e","a","t">>

(***************************************************************************)
(* Identifiers of the generated code.  identifier(prefix, suffix) is the   *)
(* string "_<prefix>_<mangle(suffix)>"; it is kept as the triple of the    *)
(* prefix, the name part and the object identity part.  A node's identity  *)
(* (Python's id(node)) is its position in the node tree.                   *)
(***************************************************************************)
RECURSIVE mangle(_)
mangle(string) ==
  IF string = <<>> THEN <<>>
  ELSE LET c == Head(string) IN
       IF c = "\n" THEN mangle(Tail(string))
       ELSE <<IF c \in {"-", ":", " "} THEN "_" ELSE c>> \o mangle(Tail(string))

identifier(prefix, name, id) == <<prefix, name, id>>

\* identifier(prefix) with no suffix: the suffix is id(prefix), the identity
\* of the prefix string, which does not depend on the node compiled
identifier_of_prefix(prefix) == identifier(prefix, <<>>, <<>>)

Local(name) == identifier(name, <<>>, <<>>)

AppendId == Local("append")

\* _get_translation_identifiers: the prefix is id(self._translations[-1])
TranslationStream(block, name) == identifier("stream", name, block)
TranslationAppend(block, name) == identifier("append", name, block)

\* the list behind an append method: "a = s.append" pairs the two names
StreamOf(append) == identifier("stream", append[2], append[3])

SlotPrefix == <<"_","s","l","o","t","_">>

FunctionName(name) ==
  IF name = <<>> THEN <<"render">> ELSE <<"render_">> \o mangle(name)

(***************************************************************************)
(* Expression nodes.  kind is the node class ("Expression", "Negate",      *)
(* "Identity", "Equality", "Interpolation", "Marker", "Translate"), "raw"  *)
(* an ast.expr, "string" a plain string.  The expression engine is opaque: *)
(* sem says what the engine's statements do when run: "const" yields v,    *)
(* "name" reads the variable name, "store" binds the variable name to v,   *)
(* "raise" raises the exception class x.                                   *)
(***************************************************************************)
Expr(id, kind, sem, v, name, x, sub) ==
  [id |-> id, kind |-> kind, sem |-> sem, v |-> v, name |-> name, x |-> x,
   sub |-> sub]

NoExpr == Expr(0, "none", "const", NoneV, <<>>, "", <<>>)
Const(id, v) == Expr(id, "Expression", "const", v, <<>>, "", <<>>)
Name(id, name) == Expr(id, "Expression", "name", NoneV, name, "", <<>>)
Raise(id, x) == Expr(id, "Expression", "raise", NoneV, <<>>, x, <<>>)
Write(id, name, v) == Expr(id, "Expression", "store", v, name, "", <<>>)

(***************************************************************************)
(* Template nodes, one record shape: kids holds the child nodes (for a     *)
(* Define its assignments followed by its body, for an OnError the body    *)
(* and the fallback, for a UseMacro its slots, for a MacroProgram its      *)
(* macros followed by the nodes of its own body).  msgid is <<>> for None  *)
(* and <<text>> for a literal.                                             *)
(***************************************************************************)
Node(kind, name, value, names, expression, local, kids, msgid) ==
  [kind |-> kind, name |-> name, value |-> value, names |-> names,
   expression |-> expression, local |-> local, kids |-> kids, msgid |-> msgid]

Text(value) == Node("Text", <<>>, value, <<>>, NoExpr, FALSE, <<>>, <<>>)
Content(e) == Node("Content", <<>>, <<>>, <<>>, e, FALSE, <<>>, <<>>)
Sequence(items) == Node("Sequence", <<>>, <<>>, <<>>, NoExpr, FALSE, items, <<>>)
Assignment(names, e, local) ==
  Node("Assignment", <<>>, <<>>, names, e, local, <<>>, <<>>)
Define(assignments, node) ==
  Node("Define", <<>>, <<>>, <<>>, NoExpr, FALSE, Append(assignments, node), <<>>)
OnError(node, fallback) ==
  Node("OnError", <<>>, <<>>, <<>>, NoExpr, FALSE, <<node, fallback>>, <<>>)
Repeat(names, e, local, whitespace, node) ==
  Node("Repeat", <<>>, whitespace, names, e, local, <<node>>, <<>>)
Translate(msgid, node) ==
  Node("Translate", <<>>, <<>>, <<>>, NoExpr, FALSE, <<node>>, msgid)
NameBlock(name, node) ==
  Node("Name", name, <<>>, <<>>, NoExpr, FALSE, <<node>>, <<>>)
Domain(name, node) ==
  Node("Domain", name, <<>>, <<>>, NoExpr, FALSE, <<node>>, <<>>)
Cache(e, node) == Node("Cache", <<>>, <<>>, <<>>, e, FALSE, <<node>>, <<>>)
\* a Condition with no orelse attribute
Condition(e, node) == Node("Condition", <<>>, <<>>, <<>>, e, FALSE, <<node>>, <<>>)
UseInternalMacro(name) ==
  Node("UseInternalMacro", name, <<>>, <<>>, NoExpr, FALSE, <<>>, <<>>)
DefineSlot(name, node) ==
  Node("DefineSlot", name, <<>>, <<>>, NoExpr, FALSE, <<node>>, <<>>)
Slot(name, node) == Node("Slot", name, <<>>, <<>>, NoExpr, FALSE, <<node>>, <<>>)
UseMacro(e, slots) == Node("UseMacro", <<>>, <<>>, <<>>, e, FALSE, slots, <<>>)
Macro(name, body) == Node("Macro", name, <<>>, <<>>, NoExpr, FALSE, body, <<>>)
MacroProgram(macros, body) ==
  Node("MacroProgram", <<>>, <<>>, <<>>, NoExpr, FALSE, macros \o body, <<>>)

IsMacro(n) == n.kind = "Macro"

(***************************************************************************)
(* The statements of the emitted program.                                  *)
(***************************************************************************)
\* emit_node: append(node)
EmitNode(value, sink) == [op |-> "append", value |-> value, sink |-> sink]
\* if NAME is not None: append(NAME)
EmitVar(var, sink) == [op |-> "append_var", var |-> var, sink |-> sink]
\* the statements of the expression engine for one expression
Eval(target, e, ctx) ==
  [op |-> "eval", target |-> target, sem |-> e.sem, v |-> e.v,
   name |-> e.name, x |-> e.x, ctx |-> ctx]
\* TARGET = SOURCE, both local names
Assign(target, source) == [op |-> "assign", target |-> target, source |-> source]
\* TARGET = <constant>
AssignConst(target, v) == [op |-> "assign_const", target |-> target, v |-> v]
\* astutil.Comment
Comment(text) == [op |-> "comment", text |-> text]

\* Comment statements that delimit the statements of one node; they have no
\* effect on the program and let the observer variables follow the run
Enter(node, path, sink) ==
  [op |-> "enter", node |-> node, path |-> path, sink |-> sink]
Leave(path) == [op |-> "leave", path |-> path]

Result(s, c) == [s |-> s, c |-> c]

(***************************************************************************)
(* Compiler.__init__: the compiler's state.  translations holds one entry  *)
(* per open Translate: the identity of its name set and the names.         *)
(***************************************************************************)
NoError == [type |-> "", arg |-> <<>>]

CompilerInit ==
  [cache |-> EmptyMap, translations |-> <<>>, scopes |-> <<{}>>,
   markers |-> {}, err |-> NoError]

\* a compile-time exception: compilation stops, the state stays as it was
Failed(c, type, arg) == [c EXCEPT !.err = [type |-> type, arg |-> arg]]

Ok(c) == c.err.type = ""

(***************************************************************************)
(* ExpressionCompiler                                                      *)
(***************************************************************************)
\* the rewrite with the builtin names looked at first
BuiltinFirst(name, ctx) ==
  IF ctx = "load" /\ name \in global_fallback THEN "econtext_get"
  ELSE IF (name # <<>> /\ Head(name) = "_")
          \/ name \in COMPILER_INTERNALS_OR_DISALLOWED
  THEN ctx
  ELSE IF ctx = "store" THEN "store_econtext"
  ELSE "load_econtext"

\* _dynamic_transform: what a name of the engine's statements becomes;
\* ctx is "load" or "store"
_dynamic_transform(name, ctx) ==
  IF (name # <<>> /\ Head(name) = "_") \/ name \in COMPILER_INTERNALS_OR_DISALLOWED
  THEN ctx
  ELSE IF ctx = "store" THEN "store_econtext"
  ELSE IF name \in global_fallback THEN "econtext_get"
  ELSE "load_econtext"

\* NameLookupRewriteTransformer(self._dynamic_transform) over the statements
Rewrite(stmts) ==
  [i \in 1..Len(stmts) |->
     IF stmts[i].op = "eval" /\ stmts[i].sem \in {"name", "store"}
     THEN [stmts[i] EXCEPT !.ctx = _dynamic_transform(stmts[i].name, @)]
     ELSE stmts[i]]

\* TARGET = not TARGET
NotStmt(target) == [op |-> "not", target |-> target]
\* TARGET = _expression is _value  /  TARGET = _expression == _value
\* (node is the comparison node the statement was emitted for)
Compare(target, how, node) ==
  [op |-> "compare", target |-> target, how |-> how, node |-> node]
\* the string-expression machinery joins the parts into the target
Concat(target, n) == [op |-> "concat", target |-> target, n |-> n]
\* emit_translate: target = translate(msgid, default=default, domain=_i18n_domain)
EmitTranslate(target, literal, text, default) ==
  [op |-> "emit_translate", target |-> target, literal |-> literal,
   text |-> text, default |-> default]
\* target = _marker_<name>
LoadMarker(target, name) == [op |-> "load_marker", target |-> target, name |-> name]

\* the statements of r followed by stmts / preceded by stmts
Followed(r, stmts) == Result(r.s \o stmts, r.c)
Preceded(stmts, r) == Result(stmts \o r.s, r.c)

\* r, and then the compilation next(c) from the state r left; nothing is
\* returned once an exception was raised
Bind(r, next(_)) ==
  IF Ok(r.c) THEN Preceded(r.s, next(r.c)) ELSE Result(<<>>, r.c)

RECURSIVE translate(_, _, _), translate_parts(_, _, _, _)

\* the context of the name in the engine's statements: ast.Store or ast.Load
Ctx(node) == IF node.sem = "store" THEN "store" ELSE "load"

visit_Expression(node, target, c) == Result(<<Eval(target, node, Ctx(node))>>, c)

visit_Negate(node, target, c) ==
  Followed(translate(node.sub[1], target, c), <<NotStmt(target)>>)

visit_Marker(node, target, c) ==
  Result(<<LoadMarker(target, node.name)>>,
         [c EXCEPT !.markers = @ \cup {node.name}])

visit_Comparison(node, target, how, c) ==
  Followed(Bind(translate(node.sub[1], Local("_expression"), c),
                LAMBDA cc : translate(node.sub[2], Local("_value"), cc)),
           <<Compare(target, how, node)>>)

visit_Identity(node, target, c) == visit_Comparison(node, target, "is", c)

visit_Equality(node, target, c) == visit_Comparison(node, target, "==", c)

\* the engine closure of visit_Interpolation, called for each substitution:
\* every part is wrapped in a new Expression node, which no cache entry names
translate_parts(parts, target, i, c) ==
  IF i > Len(parts) THEN Result(<<>>, c)
  ELSE Bind(translate([parts[i] EXCEPT !.kind = "Expression", !.id = 0 - @],
                      target, c),
            LAMBDA cc : translate_parts(parts, target, i + 1, cc))

visit_ExprInterpolation(node, target, c) ==
  Followed(translate_parts(node.sub, target, 1, c),
           <<Concat(target, Len(node.sub))>>)

visit_ExprTranslate(node, target, c) ==
  Followed(translate(node.sub[1], target, c),
           <<EmitTranslate(target, node.x = "msgid", node.name, target)>>)

\* stmts.insert(0, comment)
Commented(target, r) ==
  IF Ok(r.c) THEN Preceded(<<Comment(target)>>, r) ELSE Result(<<>>, r.c)

\* no expression is found in the cache
NeverCached(expression, c) == FALSE

\* cached = self.cache.get(expression); cached is not None
IsCached(expression, c) == expression \in DOMAIN c.cache

translate(expression, target, c) ==
  IF IsCached(expression, c)
  THEN Result(<<Assign(target, c.cache[expression])>>, c)
  ELSE IF expression.kind = "raw"
  THEN Result(<<Eval(target, expression, Ctx(expression))>>,
              [c EXCEPT !.cache = (expression :> target) @@ @])
  ELSE Commented(target,
         CASE expression.kind \in {"Expression", "string"} ->
                visit_Expression(expression, target, c)
           [] expression.kind = "Negate" -> visit_Negate(expression, target, c)
           [] expression.kind = "Marker" -> visit_Marker(expression, target, c)
           [] expression.kind = "Identity" -> visit_Identity(expression, target, c)
           [] expression.kind = "Equality" -> visit_Equality(expression, target, c)
           [] expression.kind = "Interpolation" ->
                visit_ExprInterpolation(expression, target, c)
           [] expression.kind = "Translate" ->
                visit_ExprTranslate(expression, target, c)
           [] OTHER -> Result(<<>>, Failed(c, "AttributeError", <<>>)))

\* the name rewrite of ExpressionCompiler.__call__ over the statements
Rewritten(r) == Result(Rewrite(r.s), r.c)

\* ExpressionCompiler.__call__
Engine(expression, target, c) == Rewritten(translate(expression, target, c))

(***************************************************************************)
(* Compiler: the statement forms of its templates                          *)
(***************************************************************************)
\* append = stream.append
BindAppend == [op |-> "bind_append"]
\* name = econtext[key], for the names of Compiler.defaults
LoadDefaults == [op |-> "load_defaults"]
\* emit_convert(target)
Convert(target) == [op |-> "convert", target |-> target]
\* emit_convert_and_escape(target, target)
ConvertAndEscape(target) == [op |-> "convert_and_escape", target |-> target]
\* BACKUP = econtext.get(KEY, _marker)
Backup(var, key) == [op |-> "backup", var |-> var, key |-> key]
\* if BACKUP is _marker: del econtext[KEY] / else: econtext[KEY] = BACKUP
Restore(var, key) == [op |-> "restore", var |-> var, key |-> key]
\* context[key] = source, or the tuple of context[key] = source (unpack)
Store(context, keys, source, unpack) ==
  [op |-> "store", context |-> context, keys |-> keys, source |-> source,
   unpack |-> unpack]
\* no name is given the value None
StoreNothing(keys) == [op |-> "store_none", keys |-> <<>>]

\* econtext[k1] = econtext[k2] = ... = None
StoreNone(keys) == [op |-> "store_none", keys |-> keys]
\* fallback = len(stream)
LenStream(var) == [op |-> "len", var |-> var]
\* del stream[fallback:]
Truncate(var) == [op |-> "truncate", var |-> var]
\* try: body / except classes: handler / else: orelse
Try(body, classes, handler, orelse) ==
  [op |-> "try", body |-> body, classes |-> classes, handler |-> handler,
   orelse |-> orelse]
Pass == [op |-> "pass"]
\* if TEST: body / else: orelse
If(test, body, orelse) == [op |-> "if", test |-> test, body |-> body, orelse |-> orelse]
\* s = []; a = s.append
NewList(s, a) == [op |-> "new_list", stream |-> s, append |-> a]
\* msgid = reduce_whitespace(''.join(stream)).strip()
Msgid(msgid, s) == [op |-> "msgid", msgid |-> msgid, stream |-> s]
\* append(translate(msgid, mapping=mapping, default=default, domain=_i18n_domain))
\* msgid is the literal text when literal, else the variable msgid; mapping
\* is None when none, else maps each name to the list joined for it
TranslateCall(literal, text, msgid, none, mapping, default, sink) ==
  [op |-> "translate", literal |-> literal, text |-> text, msgid |-> msgid,
   none |-> none, mapping |-> mapping, default |-> default, sink |-> sink]
\* f(stream, econtext.copy(), rcontext)
Call(f) == [op |-> "call", f |-> f]
\* econtext.update(rcontext)
Update == [op |-> "update"]
\* def name(stream, econtext, rcontext): body
FunctionDef(name, body) == [op |-> "def", name |-> name, body |-> body]
\* _macro.include(stream, econtext.copy(), rcontext)
Include == [op |-> "include"]
\* _slot = econtext.pop(NAME)
Pop(key) == [op |-> "pop", key |-> key]
\* _slot(stream, econtext.copy(), econtext)
SlotCall == [op |-> "slot_call"]
\* _iterator, INDEX = econtext['repeat'](key, _iterator)
RepeatCall(key, index) == [op |-> "repeat", key |-> key, index |-> index]
\* for _item in _iterator: body
For(body) == [op |-> "for", body |-> body]
\* index -= 1
Decrement(index) == [op |-> "decrement", index |-> index]
\* if INDEX > 0: append(WHITESPACE)
Separator(index, whitespace, sink) ==
  [op |-> "separator", index |-> index, whitespace |-> whitespace, sink |-> sink]

SinkOps == {"append", "append_var", "translate", "separator", "enter"}

\* astutil.swap(root, replacement, "append"): every load of the name
\* "append" under root becomes a load of the replacement
RECURSIVE swap(_, _)
swap(stmts, replacement) ==
  [i \in 1..Len(stmts) |->
     LET s == stmts[i] IN
     IF s.op \in SinkOps
     THEN IF s.sink = AppendId THEN [s EXCEPT !.sink = replacement] ELSE s
     ELSE IF s.op = "try"
     THEN [s EXCEPT !.body = swap(@, replacement),
                    !.handler = swap(@, replacement),
                    !.orelse = swap(@, replacement)]
     ELSE IF s.op = "if"
     THEN [s EXCEPT !.body = swap(@, replacement),
                    !.orelse = swap(@, replacement)]
     ELSE IF s.op \in {"for", "def"}
     THEN [s EXCEPT !.body = swap(@, replacement)]
     ELSE s]

\* _enter_assignment(names, local); id is id(names)
_enter_assignment(names, id) ==
  [i \in 1..Len(names) |->
     Backup(identifier("backup", names[i], id), names[i])]

\* _leave_assignment(names)
_leave_assignment(names, id) ==
  [i \in 1..Len(names) |->
     Restore(identifier("backup", names[i], id), names[i])]

(***************************************************************************)
(* Compiler: one operator per visit_* method.  path is the identity of the *)
(* node, c the compiler's state; the result holds the statements and the   *)
(* state after the visit.  After a compile-time exception (c.err) nothing  *)
(* more is done.                                                           *)
(***************************************************************************)
Observed ==
  {"Define", "Repeat", "Translate", "OnError", "DefineSlot", "Domain", "UseMacro"}

RECURSIVE visit(_, _, _), visit_items(_, _, _, _, _)
RECURSIVE visit_assignments(_, _, _, _), visit_slots(_, _, _, _)
RECURSIVE cache_expressions(_, _, _)

\* the statements of items[from .. to], in order
visit_items(items, path, from, to, c) ==
  IF from > to \/ ~Ok(c) THEN Result(<<>>, c)
  ELSE Bind(visit(items[from], path \o <<from>>, c),
            LAMBDA cc : visit_items(items, path, from + 1, to, cc))

visit_Sequence(node, path, c) == visit_items(node.kids, path, 1, Len(node.kids), c)

visit_Text(node, path, c) == Result(<<EmitNode(node.value, AppendId)>>, c)

\* the number of macros of a program (none in a macro)
Macros(node) == Cardinality({i \in 1..Len(node.kids) : IsMacro(node.kids[i])})

\* the function of visit_Macro around the statements of the macro's body
Function(node, r) ==
  Result(<<FunctionDef(FunctionName(node.name),
                       <<BindAppend, AssignConst(Local("_i18n_domain"), NoneV),
                         LoadDefaults>> \o r.s)>>, r.c)

visit_Macro(node, path, c) ==
  Function(node, visit_items(node.kids, path, Macros(node) + 1, Len(node.kids), c))

visit_MacroProgram(node, path, c) ==
  Bind(visit_items(node.kids, path, 1, Macros(node), c),
       LAMBDA cc : visit_Macro(node, path, cc))

visit_Domain(node, path, c) ==
  LET backup == identifier("_previous_i18n_domain", <<>>, path)
  IN  Preceded(<<Assign(backup, Local("_i18n_domain")),
                 AssignConst(Local("_i18n_domain"), StrV(node.name))>>,
               Followed(visit(node.kids[1], path \o <<1>>, c),
                        <<Assign(Local("_i18n_domain"), backup)>>))

\* the statements of visit_OnError, given those of the body and the fallback
TryExcept(fallback, body, handler) ==
  Result(<<LenStream(fallback),
           Try(body.s, exceptions, <<Truncate(fallback)>> \o handler.s, <<>>)>>,
         handler.c)

\* visit_OnError once the body is compiled
OnErrorHandler(node, path, body) ==
  IF ~Ok(body.c) THEN Result(<<>>, body.c)
  ELSE TryExcept(identifier_of_prefix("_fallback"), body,
                 visit(node.kids[2], path \o <<2>>, body.c))

visit_OnError(node, path, c) ==
  OnErrorHandler(node, path, visit(node.kids[1], path \o <<1>>, c))

\* the content conversion steps of visit_Content; node.local holds the
\* Content node's escape flag
ContentOutput(node, name) ==
  IF node.msgid # <<>> THEN <<EmitTranslate(name, FALSE, <<>>, Local("None"))>>
  ELSE IF node.local THEN <<ConvertAndEscape(name)>>
  ELSE <<Convert(name)>>

visit_Content(node, path, c) ==
  Followed(Engine(node.expression, Local("_content"), c),
           ContentOutput(node, Local("_content"))
           \o <<EmitVar(Local("_content"), AppendId)>>)

\* only the first name of an assignment is looked at
DisallowedFirst(names) ==
  {i \in 1..Len(names) : i = 1 /\ names[i] \in COMPILER_INTERNALS_OR_DISALLOWED}

\* the positions of the names an assignment may not bind
Disallowed(names) ==
  {i \in 1..Len(names) : names[i] \in COMPILER_INTERNALS_OR_DISALLOWED}

visit_Assignment(node, path, c) ==
  LET names == node.names
      bad == Disallowed(names)
  IN  IF bad # {}
      THEN Result(<<>>, Failed(c, "TranslationError",
                               names[CHOOSE i \in bad : \A j \in bad : i <= j]))
      ELSE Followed(Engine(node.expression, Local("_value"), c),
                    <<Store("econtext", names, Local("_value"), Len(names) # 1)>>
                    \o (IF node.local THEN <<>>
                        ELSE [i \in 1..Len(names) |->
                                Store("rcontext", <<names[i]>>, Local("_value"),
                                      FALSE)]))

\* the loop of visit_Define over node.assignments
visit_assignments(assignments, path, i, c) ==
  IF i > Len(assignments) \/ ~Ok(c) THEN Result(<<>>, c)
  ELSE Preceded(_enter_assignment(assignments[i].names, path \o <<i>>),
                Bind(visit(assignments[i], path \o <<i>>, c),
                     LAMBDA cc : visit_assignments(assignments, path, i + 1, cc)))

\* the end of visit_Define: "names" is what the loop over the assignments
\* left in it, the names of the last assignment
DefineLeave(node, path, r) ==
  LET n == Len(node.kids) IN
  IF ~Ok(r.c) THEN Result(<<>>, r.c)
  ELSE IF n = 1 THEN Result(<<>>, Failed(r.c, "UnboundLocalError", <<>>))
  ELSE Result(r.s \o _leave_assignment(node.kids[n - 1].names, path \o <<n - 1>>),
              [r.c EXCEPT !.scopes = SubSeq(@, 1, Len(@) - 1)])

visit_Define(node, path, c) ==
  DefineLeave(node, path,
    Bind(visit_assignments(SubSeq(node.kids, 1, Len(node.kids) - 1), path, 1,
                           [c EXCEPT !.scopes = Append(@, @[Len(@)])]),
         LAMBDA cc : visit(node.kids[Len(node.kids)],
                           path \o <<Len(node.kids)>>, cc)))

\* the If statement of visit_Condition, given the statements of the body and
\* of the orelse node
IfElse(body, orelse) ==
  Result(<<If(Local("_condition"), IF body.s = <<>> THEN <<Pass>> ELSE body.s,
              orelse.s)>>,
         orelse.c)

\* visit_Condition once the body is compiled: the orelse node, when the node
\* has one, is the second child
ConditionBranches(node, path, body) ==
  IF ~Ok(body.c) THEN Result(<<>>, body.c)
  ELSE IfElse(body, IF Len(node.kids) > 1
                    THEN visit(node.kids[2], path \o <<2>>, body.c)
                    ELSE Result(<<>>, body.c))

visit_Condition(node, path, c) ==
  Bind(Engine(node.expression, Local("_condition"), c),
       LAMBDA cc : ConditionBranches(node, path,
                                     visit(node.kids[1], path \o <<1>>, cc)))

\* the statements of visit_Translate, given those of the body
TranslateBody(node, path, body) ==
  LET append == identifier("append", <<>>, path)
      s == identifier("stream", <<>>, path)
      msgid == identifier("msgid", <<>>, path)
      block == body.c.translations[Len(body.c.translations)]
      literal == node.msgid # <<>> /\ node.msgid[1] # <<>>
  IN  IF ~Ok(body.c) THEN Result(<<>>, body.c)
      ELSE Result(<<NewList(s, append)>> \o swap(body.s, append)
                  \o <<Msgid(msgid, s),
                       TranslateCall(literal,
                                     IF literal THEN node.msgid[1] ELSE <<>>,
                                     msgid, block.names = {},
                                     [name \in block.names |->
                                        TranslationStream(block.id, name)],
                                     msgid, AppendId)>>,
                  [body.c EXCEPT !.translations = SubSeq(@, 1, Len(@) - 1)])

visit_Translate(node, path, c) ==
  TranslateBody(node, path,
    visit(node.kids[1], path \o <<1>>,
          [c EXCEPT !.translations = Append(@, [id |-> path, names |-> {}])]))

\* the statements of visit_Name, given those of the body
NameBody(node, block, body) ==
  IF ~Ok(body.c) THEN Result(<<>>, body.c)
  ELSE Result(<<NewList(TranslationStream(block.id, node.name),
                        TranslationAppend(block.id, node.name))>>
              \o swap(body.s, TranslationAppend(block.id, node.name))
              \o <<EmitNode(<<"$", "{">> \o node.name \o <<"}">>, AppendId)>>,
              body.c)

\* no name is taken as recorded
RecordedNowhere(name, c) == FALSE

\* node.name in self._translations[-1]
Recorded(name, c) == name \in c.translations[Len(c.translations)].names

\* self._translations is a list, never None: with no open Translate the
\* subscript [-1] of the empty list raises IndexError
visit_Name(node, path, c) ==
  LET n == Len(c.translations) IN
  IF n = 0 THEN Result(<<>>, Failed(c, "IndexError", <<>>))
  ELSE IF Recorded(node.name, c)
  THEN Result(<<>>, Failed(c, "TranslationError", node.name))
  ELSE NameBody(node, c.translations[n],
                visit(node.kids[1], path \o <<1>>,
                      [c EXCEPT !.translations[n].names = @ \cup {node.name}]))

\* self._expression_cache[expression] = target
Cached(expression, target, r) ==
  Result(r.s, [r.c EXCEPT !.cache = (expression :> target) @@ @])

\* the loop of visit_Cache over node.expressions
cache_expressions(expressions, i, c) ==
  IF i > Len(expressions) \/ ~Ok(c) THEN Result(<<>>, c)
  ELSE IF expressions[i] \in DOMAIN c.cache
  THEN cache_expressions(expressions, i + 1, c)
  ELSE Bind(Cached(expressions[i], identifier("cache", <<>>, <<expressions[i].id>>),
                   Engine(expressions[i],
                          identifier("cache", <<>>, <<expressions[i].id>>), c)),
            LAMBDA cc : cache_expressions(expressions, i + 1, cc))

visit_Cache(node, path, c) ==
  Bind(cache_expressions(node.expression.sub, 1, c),
       LAMBDA cc : visit(node.kids[1], path \o <<1>>, cc))

visit_UseInternalMacro(node, path, c) ==
  Result(<<Call(FunctionName(node.name)), Update>>, c)

\* the statement of visit_DefineSlot, given those of the default body
SlotTry(node, body) ==
  Result(<<Try(<<Pop(SlotPrefix \o mangle(node.name))>>, {"BaseException"},
               IF body.s = <<>> THEN <<Pass>> ELSE body.s, <<SlotCall>>)>>,
         body.c)

visit_DefineSlot(node, path, c) ==
  SlotTry(node, visit(node.kids[1], path \o <<1>>, c))

\* the callback of visit_UseMacro for one slot, given the slot's statements
Callback(slot, body) ==
  Result(<<FunctionDef(identifier("_slot", mangle(slot.name), <<>>),
                       IF body.s = <<>> THEN <<Pass>> ELSE body.s),
           Store("econtext", <<SlotPrefix \o mangle(slot.name)>>,
                 identifier("_slot", mangle(slot.name), <<>>), FALSE)>>,
         body.c)

\* the loop of visit_UseMacro over node.slots
visit_slots(slots, path, i, c) ==
  IF i > Len(slots) \/ ~Ok(c) THEN Result(<<>>, c)
  ELSE Bind(Callback(slots[i], visit(slots[i].kids[1], path \o <<i, 1>>, c)),
            LAMBDA cc : visit_slots(slots, path, i + 1, cc))

visit_UseMacro(node, path, c) ==
  Followed(Bind(visit_slots(node.kids, path, 1, c),
                LAMBDA cc : Engine(node.expression, Local("_macro"), cc)),
           <<Include, Update>>)

\* the statements of visit_Repeat, given those of the iterator expression
\* (outer) and of the body (inner)
RepeatLoop(node, path, outer, inner) ==
  LET names == node.names
      index == identifier("_index", <<>>, path)
      contexts == IF node.local THEN <<"econtext">> ELSE <<"econtext", "rcontext">>
      \* one assignment statement with one target per context
      assignment == [i \in 1..Len(contexts) |->
                       Store(contexts[i], names, Local("_item"), Len(names) > 1)]
  IN  IF ~Ok(inner.c) THEN Result(<<>>, inner.c)
      ELSE Result(_enter_assignment(names, path) \o outer
                  \o <<RepeatCall(names, index), StoreNone(names),
                       For(assignment \o inner.s
                           \o <<Decrement(index),
                                Separator(index, node.value, AppendId)>>)>>
                  \o _leave_assignment(names, path),
                  [inner.c EXCEPT !.scopes = SubSeq(@, 1, Len(@) - 1)])

\* visit_Repeat once the iterator expression is compiled
RepeatInner(node, path, iterator) ==
  IF ~Ok(iterator.c) THEN Result(<<>>, iterator.c)
  ELSE RepeatLoop(node, path, iterator.s,
                  visit(node.kids[1], path \o <<1>>, iterator.c))

visit_Repeat(node, path, c) ==
  RepeatInner(node, path,
              Engine(node.expression, Local("_iterator"),
                     [c EXCEPT !.scopes = Append(@, {})]))

\* the comments around the statements of an observed node
Probed(node, path, r) ==
  IF node.kind \in Observed /\ Ok(r.c)
  THEN Result(<<Enter(node, path, AppendId)>> \o r.s \o <<Leave(path)>>, r.c)
  ELSE r

\* Compiler.visit: the dispatch on the node's class
visit(node, path, c) ==
  Probed(node, path,
    CASE node.kind = "Sequence" -> visit_Sequence(node, path, c)
      [] node.kind = "Text" -> visit_Text(node, path, c)
      [] node.kind = "Macro" -> visit_Macro(node, path, c)
      [] node.kind = "MacroProgram" -> visit_MacroProgram(node, path, c)
      [] node.kind = "Domain" -> visit_Domain(node, path, c)
      [] node.kind = "OnError" -> visit_OnError(node, path, c)
      [] node.kind = "Content" -> visit_Content(node, path, c)
      [] node.kind = "Assignment" -> visit_Assignment(node, path, c)
      [] node.kind = "Define" -> visit_Define(node, path, c)
      [] node.kind = "Condition" -> visit_Condition(node, path, c)
      [] node.kind = "Translate" -> visit_Translate(node, path, c)
      [] node.kind = "Name" -> visit_Name(node, path, c)
      [] node.kind = "Cache" -> visit_Cache(node, path, c)
      [] node.kind = "UseInternalMacro" -> visit_UseInternalMacro(node, path, c)
      [] node.kind = "DefineSlot" -> visit_DefineSlot(node, path, c)
      [] node.kind = "UseMacro" -> visit_UseMacro(node, path, c)
      [] node.kind = "Repeat" -> visit_Repeat(node, path, c)
      [] OTHER -> Result(<<>>, Failed(c, "AttributeError", <<>>)))

\* Compiler.__call__: the module's functions by name (a later definition of
\* a name replaces an earlier one), and the compiler's state at the end
RECURSIVE Functions(_, _)
Functions(stmts, i) ==
  IF i = 0 THEN EmptyMap
  ELSE (stmts[i].name :> stmts[i].body) @@ Functions(stmts, i - 1)

Module(r) ==
  [functions |-> IF Ok(r.c) THEN Functions(r.s, Len(r.s)) ELSE EmptyMap,
   c |-> r.c]

Compile(program) == Module(visit(program, <<>>, CompilerInit))

(***************************************************************************)
(* Part 2: the run of the emitted program.                                 *)
(*                                                                         *)
(* String primitives used by the emitted statements.                       *)
(***************************************************************************)
IsSpace(c) == c \in {" ", "\t", "\n", "\r"}

RECURSIVE lstrip(_)
lstrip(s) == IF s # <<>> /\ IsSpace(Head(s)) THEN lstrip(Tail(s)) ELSE s

RECURSIVE rstrip(_)
rstrip(s) ==
  IF s # <<>> /\ IsSpace(s[Len(s)]) THEN rstrip(SubSeq(s, 1, Len(s) - 1)) ELSE s

\* str.strip()
strip(s) == rstrip(lstrip(s))

\* RE_REDUCE_WS: re.compile(r'\s+').sub(' ', s)
RECURSIVE reduce_whitespace(_)
reduce_whitespace(s) ==
  IF s = <<>> THEN <<>>
  ELSE IF IsSpace(Head(s)) THEN <<" ">> \o reduce_whitespace(lstrip(s))
  ELSE <<Head(s)>> \o reduce_whitespace(Tail(s))

\* ''.join(list)
RECURSIVE join(_)
join(list) == IF list = <<>> THEN <<>> ELSE Head(list) \o join(Tail(list))

(***************************************************************************)
(* The machine.  A block of the control stack holds the statements still   *)
(* to run (s); a "try" block also its handler, else-clause and exception   *)
(* classes, a "for" block its body (in handler) and the items still to     *)
(* come.  A frame holds the identities of its econtext and rcontext, its   *)
(* local variables and, for a nested function, the frame that defined it.  *)
(***************************************************************************)
Block(k, s, handler, orelse, classes, items) ==
  [k |-> k, s |-> s, handler |-> handler, orelse |-> orelse,
   classes |-> classes, items |-> items]

Plain(k, s) == Block(k, s, <<>>, <<>>, {}, <<>>)

Frame(e, r, env) == [e |-> e, r |-> r, loc |-> EmptyMap, env |-> env]

Depth == Len(frames)
F == frames[Depth]
E == dicts[F.e]
R == dicts[F.r]
Top == ctl[1]
Cur == Head(Top.s)
Running == exc = "" /\ ctl # <<>> /\ Top.s # <<>>
At(op) == Running /\ Cur.op = op
Rest == <<[Top EXCEPT !.s = Tail(@)]>> \o Tail(ctl)

\* the frame in which a name is bound, looked up from frame fi through the
\* enclosing functions; 0 when it is bound nowhere
RECURSIVE Where(_, _)
Where(fi, id) ==
  IF fi = 0 THEN 0
  ELSE IF id \in DOMAIN frames[fi].loc THEN fi
  ELSE Where(frames[fi].env, id)

\* a name is looked up in the function and the functions around it, then in
\* the module
Bound(id) == Where(Depth, id) # 0 \/ id \in DOMAIN module
Val(id) ==
  IF Where(Depth, id) # 0 THEN frames[Where(Depth, id)].loc[id] ELSE module[id]

Locals(f, updates) == [f EXCEPT !.loc = updates @@ @]
WithLocals(updates) == [frames EXCEPT ![Depth] = Locals(@, updates)]

Without(d, key) == [k \in DOMAIN d \ {key} |-> d[k]]

\* the list an append method writes to
SinkContent(sink) ==
  IF sink = AppendId THEN stream
  ELSE IF Bound(StreamOf(sink)) THEN Val(StreamOf(sink)).l ELSE <<>>

Emitted(sink, text) ==
  IF sink = AppendId
  THEN [stream |-> Append(stream, text), frames |-> frames]
  ELSE [stream |-> stream,
        frames |-> [frames EXCEPT ![Where(Depth, sink)].loc[StreamOf(sink)].l =
                      Append(@, text)]]

Catches(classes, c) ==
  "BaseException" \in classes \/ c \in classes \/ Superclass(c) \in classes

(***************************************************************************)
(* The observer.  A mark is pushed when a node's statements are entered    *)
(* and popped when they are left; it keeps the contexts and the output as  *)
(* they were on entry.  A mark of kind "call" is kept from a macro call    *)
(* to the update that follows it.                                          *)
(***************************************************************************)
Mark(kind, path, node, sink) ==
  [kind |-> kind, path |-> path, node |-> node, sink |-> sink,
   lvl |-> Len(ctl), frame |-> Depth, e |-> E, r |-> R, eid |-> F.e,
   stream |-> stream, out |-> SinkContent(sink), n |-> 0, tag |-> ""]

NoMark ==
  [kind |-> "none", path |-> <<>>, node |-> Text(<<>>), sink |-> AppendId,
   lvl |-> 0, frame |-> 0, e |-> EmptyMap, r |-> EmptyMap, eid |-> 0,
   stream |-> <<>>, out |-> <<>>, n |-> 0, tag |-> ""]

Did(op) == [kind |-> op, m |-> NoMark]

\* a mark's tag says which branch of its try statement ran
Tagged(tag, branch) == IF tag = "" THEN branch ELSE "both"

\* the marks that survive when the block at height h is abandoned
Pruned(h) == SelectSeq(marks, LAMBDA m : m.lvl < h)

Static ==
  UNCHANGED <<code, cache, emitted, compiled, template, compiler, turn, parked>>

\* the saved length of an OnError is kept in the module namespace
GlobalFallback == {identifier_of_prefix("_fallback")}

\* the names a render function declares global: the bodies visit_Macro
\* builds hold no global statement, so every name they bind is a local
\* variable of the call
Global == {}

\* the part of the bindings made in the module namespace
Shared(updates) == [id \in DOMAIN updates \cap Global |-> updates[id]]

\* the current statement raises the exception class c
Raising(c) ==
  /\ exc' = c
  /\ ev' = Did("raise")
  /\ UNCHANGED <<ctl, frames, dicts, fns, stream, marks, module>>

\* the current statement completes, only binding variables; event is what
\* the observer keeps of it
BindingAs(updates, event) ==
  /\ frames' = WithLocals([id \in DOMAIN updates \ Global |-> updates[id]])
  /\ module' = Shared(updates) @@ module
  /\ ctl' = Rest
  /\ ev' = event
  /\ UNCHANGED <<dicts, fns, stream, exc, marks>>

Binding(updates) == BindingAs(updates, Did(Cur.op))

\* the current statement completes, only changing its econtext
Context(id, d) ==
  /\ dicts' = [dicts EXCEPT ![id] = d]
  /\ ctl' = Rest
  /\ ev' = Did(Cur.op)
  /\ UNCHANGED <<frames, fns, stream, exc, marks, module>>

(***************************************************************************)
(* Output                                                                  *)
(***************************************************************************)
\* append(node)
DoAppend ==
  /\ At("append")
  /\ IF Bound(Cur.sink)
     THEN LET o == Emitted(Cur.sink, Cur.value) IN
          /\ stream' = o.stream
          /\ frames' = o.frames
          /\ ctl' = Rest
          /\ ev' = Did("append")
          /\ UNCHANGED <<dicts, fns, exc, marks, module>>
     ELSE Raising("NameError")
  /\ Static

\* if NAME is not None: append(NAME)
DoAppendVar ==
  /\ At("append_var")
  /\ IF ~Bound(Cur.var) \/ ~Bound(Cur.sink) THEN Raising("NameError")
     ELSE LET v == Val(Cur.var)
              o == IF v.t = "none" THEN [stream |-> stream, frames |-> frames]
                   ELSE Emitted(Cur.sink, v.s)
          IN  /\ stream' = o.stream
              /\ frames' = o.frames
              /\ ctl' = Rest
              /\ ev' = Did("append_var")
              /\ UNCHANGED <<dicts, fns, exc, marks, module>>
  /\ Static

\* str(n) for the small numbers of the model
Digits == <<"0", "1", "2", "3", "4", "5", "6", "7", "8", "9">>

RECURSIVE str(_)
str(n) ==
  IF n < 0 THEN <<"-">> \o str(0 - n)
  ELSE IF n < 10 THEN <<Digits[n + 1]>>
  ELSE str(n \div 10) \o <<Digits[(n % 10) + 1]>>

\* what emit_convert makes of a value that is neither None nor a str: a
\* number is printed, any other object goes through the convert collaborator
Converted(v) ==
  IF v.t = "int" THEN StrV(str(v.n))
  ELSE IF v.t = "list" THEN StrV(join(v.l))
  ELSE StrV(v.s)

Letters ==
  {"a", "b", "c", "d", "e", "f", "g", "h", "i", "j", "k", "l", "m", "n", "o",
   "p", "q", "r", "s", "t", "u", "v", "w", "x", "y", "z", "A", "B", "C", "D",
   "E", "F", "G", "H", "I", "J", "K", "L", "M", "N", "O", "P", "Q", "R", "S",
   "T", "U", "V", "W", "X", "Y", "Z"}

Has(s, c) == \E i \in 1..Len(s) : s[i] = c

\* the length of the longest prefix of s made of characters of the class
RECURSIVE Run(_, _)
Run(s, class) ==
  IF s # <<>> /\ Head(s) \in class THEN 1 + Run(Tail(s), class) ELSE 0

\* RE_AMP's lookahead ([A-Za-z]+|#[0-9]+); at the head of s
IsEntity(s) ==
  LET word == Run(s, Letters)
      number == IF s # <<>> /\ Head(s) = "#"
                THEN Run(Tail(s), {Digits[i] : i \in 1..10}) ELSE 0
  IN  \/ word > 0 /\ Len(s) > word /\ s[word + 1] = ";"
      \/ number > 0 /\ Len(s) > number + 1 /\ s[number + 2] = ";"

\* re_amp.sub('&amp', target)  /  target.replace('&', '&amp;')
RECURSIVE EscapeAmp(_, _)
EscapeAmp(s, entities) ==
  IF s = <<>> THEN <<>>
  ELSE IF Head(s) # "&" THEN <<Head(s)>> \o EscapeAmp(Tail(s), entities)
  ELSE IF ~entities THEN <<"&", "a", "m", "p", ";">> \o EscapeAmp(Tail(s), entities)
  ELSE IF IsEntity(Tail(s)) THEN <<"&">> \o EscapeAmp(Tail(s), entities)
  ELSE <<"&", "a", "m", "p">> \o EscapeAmp(Tail(s), entities)

\* target.replace(c, by)
RECURSIVE replace(_, _, _)
replace(s, c, by) ==
  IF s = <<>> THEN <<>>
  ELSE (IF Head(s) = c THEN by ELSE <<Head(s)>>) \o replace(Tail(s), c, by)

\* the character escape of emit_convert_and_escape
escape(s) ==
  replace(replace(EscapeAmp(s, Has(s, ";")), "<", <<"&", "l", "t", ";">>),
          ">", <<"&", "g", "t", ";">>)

\* emit_convert(target) and emit_convert_and_escape(target, target)
DoConvert ==
  /\ Running
  /\ Cur.op \in {"convert", "convert_and_escape"}
  /\ IF ~Bound(Cur.target) THEN Raising("NameError")
     ELSE LET v == Val(Cur.target) IN
          IF Cur.op = "convert"
          THEN Binding(Cur.target :> (IF v.t \in {"none", "str"} THEN v
                                      ELSE Converted(v)))
          ELSE Binding(Cur.target :>
                         (IF v.t = "none" THEN v
                          ELSE IF v.t = "int" THEN Converted(v)
                          ELSE StrV(escape(Converted(v).s))))
  /\ Static

\* astutil.Comment and ast.Pass: nothing happens
Skip ==
  /\ Running
  /\ Cur.op \in {"comment", "pass"}
  /\ ctl' = Rest
  /\ ev' = Did(Cur.op)
  /\ UNCHANGED <<frames, dicts, fns, stream, exc, marks, module>>
  /\ Static

(***************************************************************************)
(* Expressions and local variables                                         *)
(***************************************************************************)
\* the statements the expression engine emitted for one expression
DoEval ==
  /\ At("eval")
  /\ CASE Cur.sem = "raise" -> Raising(Cur.x)
       [] Cur.sem = "name" /\ Cur.ctx = "load_econtext" ->
            IF Cur.name \in DOMAIN E THEN Binding(Cur.target :> E[Cur.name])
            ELSE Raising("KeyError")
       [] Cur.sem = "name" /\ Cur.ctx = "econtext_get" ->
            Binding(Cur.target :>
                      (IF Cur.name \in DOMAIN E THEN E[Cur.name] ELSE ExtV(Cur.name)))
       [] Cur.sem = "name" /\ Cur.ctx = "load" ->
            IF Bound(identifier("", Cur.name, <<>>))
            THEN Binding(Cur.target :> Val(identifier("", Cur.name, <<>>)))
            ELSE IF Cur.name \in global_fallback
            THEN Binding(Cur.target :> ExtV(Cur.name))
            ELSE Raising("NameError")
       [] Cur.sem = "store" /\ Cur.ctx = "store_econtext" ->
            /\ dicts' = [dicts EXCEPT ![F.e] = (Cur.name :> Cur.v) @@ @]
            /\ frames' = WithLocals(Cur.target :> Cur.v)
            /\ ctl' = Rest
            /\ ev' = Did("eval")
            /\ UNCHANGED <<fns, stream, exc, marks, module>>
       [] Cur.sem = "store" ->
            Binding((identifier("", Cur.name, <<>>) :> Cur.v)
                    @@ (Cur.target :> Cur.v))
       [] OTHER -> Binding(Cur.target :> Cur.v)
  /\ Static

\* TARGET = SOURCE
DoAssign ==
  /\ At("assign")
  /\ IF Bound(Cur.source) THEN Binding(Cur.target :> Val(Cur.source))
     ELSE Raising("NameError")
  /\ Static

\* TARGET = <constant>
DoAssignConst ==
  /\ At("assign_const")
  /\ Binding(Cur.target :> Cur.v)
  /\ Static

\* append = stream.append
DoBindAppend ==
  /\ At("bind_append")
  /\ Binding(AppendId :> BoundV)
  /\ Static

\* translate = econtext['translate'], decode = ..., convert = ...
DoLoadDefaults ==
  /\ At("load_defaults")
  /\ IF defaults \subseteq DOMAIN E
     THEN Binding([id \in {identifier("default", k, <<>>) : k \in defaults} |->
                     E[id[2]]])
     ELSE Raising("KeyError")
  /\ Static

(***************************************************************************)
(* Define: backup, assignment, restore                                     *)
(***************************************************************************)
\* BACKUP = econtext.get(KEY, _marker)
DoBackup ==
  /\ At("backup")
  /\ Binding(Cur.var :> (IF Cur.key \in DOMAIN E THEN E[Cur.key] ELSE MarkerV))
  /\ Static

\* the values a tuple target of n names receives from v; <<>> when v
\* cannot be unpacked into n names
Unpacked(v, n) ==
  IF v.t = "str" /\ Len(v.s) = n THEN [i \in 1..n |-> StrV(<<v.s[i]>>)]
  ELSE IF v.t = "list" /\ Len(v.l) = n THEN [i \in 1..n |-> StrV(v.l[i])]
  ELSE <<>>

\* context[key] = source   /   (context[k1], context[k2], ...) = source
DoStore ==
  /\ At("store")
  /\ LET id == IF Cur.context = "econtext" THEN F.e ELSE F.r
         n == Len(Cur.keys)
         v == Val(Cur.source)
         values == IF Cur.unpack THEN Unpacked(v, n) ELSE <<v>>
     IN  IF ~Bound(Cur.source) THEN Raising("NameError")
         ELSE IF Cur.unpack /\ v.t \notin {"str", "list"} THEN Raising("TypeError")
         ELSE IF Len(values) # n THEN Raising("ValueError")
         ELSE Context(id, [k \in {Cur.keys[i] : i \in 1..n} |->
                             values[CHOOSE i \in 1..n :
                                      /\ Cur.keys[i] = k
                                      /\ \A j \in 1..n : Cur.keys[j] = k => j <= i]]
                          @@ dicts[id])
  /\ Static

\* econtext[k1] = econtext[k2] = ... = None
DoStoreNone ==
  /\ At("store_none")
  /\ Context(F.e, [k \in {Cur.keys[i] : i \in 1..Len(Cur.keys)} |-> NoneV] @@ E)
  /\ Static

\* if BACKUP is _marker: del econtext[KEY] / else: econtext[KEY] = BACKUP
DoRestore ==
  /\ At("restore")
  /\ IF ~Bound(Cur.var) THEN Raising("NameError")
     ELSE IF Val(Cur.var) = MarkerV
     THEN IF Cur.key \in DOMAIN E THEN Context(F.e, Without(E, Cur.key))
          ELSE Raising("KeyError")
     ELSE Context(F.e, (Cur.key :> Val(Cur.var)) @@ E)
  /\ Static

(***************************************************************************)
(* Blocks and exceptions                                                   *)
(***************************************************************************)
\* try: the body is entered
DoTry ==
  /\ At("try")
  /\ ctl' = <<Block("try", Cur.body, Cur.handler, Cur.orelse, Cur.classes, <<>>)>>
            \o Rest
  /\ ev' = Did("try")
  /\ UNCHANGED <<frames, dicts, fns, stream, exc, marks, module>>
  /\ Static

\* the body of a try ended without an exception: its else-clause runs
TryEnd ==
  /\ exc = "" /\ ctl # <<>> /\ Top.k = "try" /\ Top.s = <<>>
  /\ ctl' = <<Plain("block", Top.orelse)>> \o Tail(ctl)
  /\ ev' = Did("try_end")
  /\ UNCHANGED <<frames, dicts, fns, stream, exc, marks, module>>
  /\ Static

\* a handler, an else-clause or the statements of a loop's last round ended
BlockEnd ==
  /\ exc = "" /\ ctl # <<>> /\ Top.k = "block" /\ Top.s = <<>>
  /\ ctl' = Tail(ctl)
  /\ ev' = Did("block_end")
  /\ UNCHANGED <<frames, dicts, fns, stream, exc, marks, module>>
  /\ Static

\* an exception leaves a block that does not handle it; leaving a function
\* body drops its frame.  With no block left the exception reaches the caller
\* of the render function
Unwind ==
  /\ exc # "" /\ ctl # <<>>
  /\ ~(Top.k = "try" /\ Catches(Top.classes, exc))
  /\ ctl' = Tail(ctl)
  /\ frames' = IF Top.k = "function" /\ Depth > 1
               THEN SubSeq(frames, 1, Depth - 1) ELSE frames
  /\ marks' = Pruned(Len(ctl))
  /\ ev' = Did("unwind")
  /\ UNCHANGED <<dicts, fns, stream, exc, module>>
  /\ Static

\* except classes: the handler runs
Catch ==
  /\ exc # "" /\ ctl # <<>>
  /\ Top.k = "try" /\ Catches(Top.classes, exc)
  /\ ctl' = <<Plain("block", Top.handler)>> \o Tail(ctl)
  /\ exc' = ""
  /\ marks' = LET kept == Pruned(Len(ctl)) IN
              IF kept # <<>> /\ Head(kept).lvl = Len(ctl) - 1
              THEN <<[Head(kept) EXCEPT !.tag = Tagged(@, "except")]>> \o Tail(kept)
              ELSE kept
  /\ ev' = Did("except")
  /\ UNCHANGED <<frames, dicts, fns, stream, module>>
  /\ Static

\* fallback = len(stream)
DoLen ==
  /\ At("len")
  /\ Binding(Cur.var :> IntV(Len(stream)))
  /\ Static

\* del stream[fallback:]
DoTruncate ==
  /\ At("truncate")
  /\ IF ~Bound(Cur.var) THEN Raising("NameError")
     ELSE /\ stream' = SubSeq(stream, 1,
                         IF Val(Cur.var).n < Len(stream) THEN Val(Cur.var).n
                         ELSE Len(stream))
          /\ ctl' = Rest
          /\ ev' = Did("truncate")
          /\ UNCHANGED <<frames, dicts, fns, exc, marks, module>>
  /\ Static

(***************************************************************************)
(* Translate                                                               *)
(***************************************************************************)
\* s = []; a = s.append
DoNewList ==
  /\ At("new_list")
  /\ Binding((Cur.stream :> ListV(<<>>)) @@ (Cur.append :> BoundV))
  /\ Static

\* msgid = reduce_whitespace(''.join(stream)).strip()
DoMsgid ==
  /\ At("msgid")
  /\ IF ~Bound(Cur.stream) THEN Raising("NameError")
     ELSE Binding(Cur.msgid :>
                    StrV(strip(reduce_whitespace(join(Val(Cur.stream).l)))))
  /\ Static

\* the translate collaborator: without a catalogue it gives the default
Translated(msgid, mapping, default, domain) ==
  IF default.t = "str" THEN default.s ELSE msgid.s

\* append(translate(msgid, mapping=mapping, default=default, domain=_i18n_domain))
DoTranslate ==
  /\ At("translate")
  /\ LET names == DOMAIN Cur.mapping
         needed == {Cur.msgid, Cur.default, Local("_i18n_domain"), Cur.sink}
                   \cup {Cur.mapping[n] : n \in names}
         msgid == IF Cur.literal THEN StrV(Cur.text) ELSE Val(Cur.msgid)
         mapping == [n \in names |-> join(Val(Cur.mapping[n]).l)]
         default == Val(Cur.default)
         domain == Val(Local("_i18n_domain"))
         o == Emitted(Cur.sink, Translated(msgid, mapping, default, domain))
     IN  IF \E id \in needed : ~Bound(id) THEN Raising("NameError")
         ELSE /\ stream' = o.stream
              /\ frames' = o.frames
              /\ ctl' = Rest
              /\ ev' = [kind |-> "translate", m |-> Head(marks), msgid |-> msgid,
                        none |-> Cur.none, mapping |-> mapping,
                        default |-> default, domain |-> domain]
              /\ UNCHANGED <<dicts, fns, exc, marks, module>>
  /\ Static

(***************************************************************************)
(* Macros and slots                                                        *)
(***************************************************************************)
\* econtext itself, where a copy is due
Econtext == F.e

\* econtext.copy(): the identity of the new mapping object
copy == Len(dicts) + 1

\* a function body is entered with the arguments (stream, e, r)
Entered(body, e, r, env, kind) ==
  /\ dicts' = Append(dicts, E)
  /\ frames' = Append(frames, Frame(e, r, env))
  /\ ctl' = <<Plain("function", body)>> \o Rest
  /\ marks' = <<[Mark("call", <<>>, Text(<<>>), AppendId) EXCEPT !.tag = kind]>>
              \o (IF kind = "slot" /\ marks # <<>>
                  THEN <<[Head(marks) EXCEPT !.tag = Tagged(@, "override")]>>
                       \o Tail(marks)
                  ELSE marks)
  /\ ev' = [kind |-> Cur.op, m |-> NoMark, e |-> e, r |-> r]
  /\ UNCHANGED <<fns, stream, exc, module>>

\* f(stream, econtext.copy(), rcontext)
DoCall ==
  /\ At("call")
  /\ IF Cur.f \in DOMAIN code THEN Entered(code[Cur.f], copy, F.r, 0, "macro")
     ELSE Raising("NameError")
  /\ Static

\* _macro.include(stream, econtext.copy(), rcontext): the macro's render
\* function runs with these arguments
DoInclude ==
  /\ At("include")
  /\ IF ~Bound(Local("_macro")) THEN Raising("NameError")
     ELSE LET macro == Val(Local("_macro")) IN
          IF macro.t = "macro" /\ FunctionName(macro.s) \in DOMAIN code
          THEN Entered(code[FunctionName(macro.s)], copy, F.r, 0, "macro")
          ELSE Raising("AttributeError")
  /\ Static

\* the end of a function body: return to the caller
Return ==
  /\ exc = "" /\ ctl # <<>> /\ Top.k = "function" /\ Top.s = <<>>
  /\ ctl' = Tail(ctl)
  /\ frames' = IF Depth > 1 THEN SubSeq(frames, 1, Depth - 1) ELSE frames
  /\ marks' = IF marks # <<>> /\ Head(marks).kind = "call" /\ Head(marks).tag = "slot"
              THEN Tail(marks) ELSE marks
  /\ ev' = Did("return")
  /\ UNCHANGED <<dicts, fns, stream, exc, module>>
  /\ Static

\* econtext.update(rcontext)
DoUpdate ==
  /\ At("update")
  /\ dicts' = [dicts EXCEPT ![F.e] = R @@ E]
  /\ ctl' = Rest
  /\ marks' = Tail(marks)
  /\ ev' = [kind |-> "update", m |-> Head(marks)]
  /\ UNCHANGED <<frames, fns, stream, exc, module>>
  /\ Static

\* def name(stream, econtext, rcontext): body
DoDef ==
  /\ At("def")
  /\ fns' = Append(fns, [body |-> Cur.body, env |-> Depth])
  /\ frames' = WithLocals(Cur.name :> FnV(Len(fns) + 1))
  /\ ctl' = Rest
  /\ ev' = Did("def")
  /\ UNCHANGED <<dicts, stream, exc, marks, module>>
  /\ Static

\* _slot = econtext[NAME]: the key stays in econtext
DoGet ==
  /\ At("pop")
  /\ IF Cur.key \in DOMAIN E THEN Binding(Local("_slot") :> E[Cur.key])
     ELSE Raising("KeyError")
  /\ Static

\* _slot = econtext.pop(NAME)
DoPop ==
  /\ At("pop")
  /\ IF Cur.key \in DOMAIN E
     THEN /\ dicts' = [dicts EXCEPT ![F.e] = Without(E, Cur.key)]
          /\ frames' = WithLocals(Local("_slot") :> E[Cur.key])
          /\ ctl' = Rest
          /\ ev' = Did("pop")
          /\ UNCHANGED <<fns, stream, exc, marks, module>>
     ELSE Raising("KeyError")
  /\ Static

\* _slot(stream, econtext.copy(), econtext)
DoSlotCall ==
  /\ At("slot_call")
  /\ LET slot == Val(Local("_slot")) IN
     IF slot.t = "function"
     THEN Entered(fns[slot.n].body, copy, F.e, fns[slot.n].env, "slot")
     ELSE Raising("TypeError")
  /\ Static

(***************************************************************************)
(* Repeat                                                                  *)
(***************************************************************************)
\* the repeat collaborator: the items the wrapped iterator yields and the
\* index handle, the number of items
repeat(key, iterable) ==
  [items |-> IF iterable.t = "list" THEN iterable.l
             ELSE [i \in 1..Len(iterable.s) |-> <<iterable.s[i]>>],
   index |-> IF iterable.t = "list" THEN Len(iterable.l) ELSE Len(iterable.s)]

\* _iterator, INDEX = econtext['repeat'](key, _iterator)
DoRepeat ==
  /\ At("repeat")
  /\ IF RepeatKey \notin DOMAIN E THEN Raising("KeyError")
     ELSE IF ~Bound(Local("_iterator")) THEN Raising("NameError")
     ELSE IF Val(Local("_iterator")).t \notin {"list", "str"} THEN Raising("TypeError")
     ELSE LET r == repeat(Cur.key, Val(Local("_iterator"))) IN
          Binding((Local("_iterator") :> ListV(r.items))
                  @@ (Cur.index :> IntV(r.index)))
  /\ Static

\* for _item in _iterator: the loop is entered
DoFor ==
  /\ At("for")
  /\ IF ~Bound(Local("_iterator")) THEN Raising("NameError")
     ELSE /\ ctl' = <<Block("for", <<>>, Cur.body, <<>>, {},
                            Val(Local("_iterator")).l)>> \o Rest
          /\ ev' = Did("for")
          /\ UNCHANGED <<frames, dicts, fns, stream, exc, marks, module>>
  /\ Static

\* the next item is bound to _item and the body runs
ForNext ==
  /\ exc = "" /\ ctl # <<>> /\ Top.k = "for" /\ Top.s = <<>> /\ Top.items # <<>>
  /\ frames' = WithLocals(Local("_item") :> StrV(Head(Top.items)))
  /\ ctl' = <<[Top EXCEPT !.s = Top.handler, !.items = Tail(@)]>> \o Tail(ctl)
  /\ ev' = Did("for_next")
  /\ UNCHANGED <<dicts, fns, stream, exc, marks, module>>
  /\ Static

\* the iterator is exhausted
ForEnd ==
  /\ exc = "" /\ ctl # <<>> /\ Top.k = "for" /\ Top.s = <<>> /\ Top.items = <<>>
  /\ ctl' = Tail(ctl)
  /\ ev' = Did("for_end")
  /\ UNCHANGED <<frames, dicts, fns, stream, exc, marks, module>>
  /\ Static

\* index -= 1
DoDecrement ==
  /\ At("decrement")
  /\ IF ~Bound(Cur.index) THEN Raising("NameError")
     ELSE Binding(Cur.index :> IntV(Val(Cur.index).n - 1))
  /\ Static

\* if INDEX >= 0
SeparatorAlways(index) == index >= 0

\* if INDEX > 0
SeparatorDue(index) == index > 0

\* if INDEX > 0: append(WHITESPACE)
DoSeparator ==
  /\ At("separator")
  /\ IF ~Bound(Cur.index) \/ ~Bound(Cur.sink) THEN Raising("NameError")
     ELSE LET due == SeparatorDue(Val(Cur.index).n)
              o == IF due THEN Emitted(Cur.sink, Cur.whitespace)
                   ELSE [stream |-> stream, frames |-> frames]
          IN  /\ stream' = o.stream
              /\ frames' = o.frames
              /\ ctl' = Rest
              /\ marks' = IF due /\ marks # <<>>
                          THEN <<[Head(marks) EXCEPT !.n = @ + 1]>> \o Tail(marks)
                          ELSE marks
              /\ ev' = [kind |-> "separator", m |-> NoMark, due |-> due,
                        left |-> Len(ctl[1].items)]
              /\ UNCHANGED <<dicts, fns, exc, module>>
  /\ Static

(***************************************************************************)
(* The comments that delimit a node's statements                           *)
(***************************************************************************)
DoEnter ==
  /\ At("enter")
  /\ marks' = <<Mark(Cur.node.kind, Cur.path, Cur.node, Cur.sink)>> \o marks
  /\ ctl' = Rest
  /\ ev' = Did("enter")
  /\ UNCHANGED <<frames, dicts, fns, stream, exc, module>>
  /\ Static

DoLeave ==
  /\ At("leave")
  /\ marks' = Tail(marks)
  /\ ctl' = Rest
  /\ ev' = [kind |-> "leave", m |-> Head(marks)]
  /\ UNCHANGED <<frames, dicts, fns, stream, exc, module>>
  /\ Static

(***************************************************************************)
(* The statements of the expression nodes                                  *)
(***************************************************************************)
BoolV(b) == IntV(IF b THEN 1 ELSE 0)

\* Python's truth value
Truth(v) ==
  CASE v.t = "none" -> FALSE
    [] v.t = "str" -> v.s # <<>>
    [] v.t = "int" -> v.n # 0
    [] v.t = "list" -> v.l # <<>>
    [] OTHER -> TRUE

\* TARGET = not TARGET, TARGET = _expression is / == _value,
\* TARGET = _marker_<name>, the result of a string expression, and
\* emit_translate
DoExpression ==
  /\ Running
  /\ Cur.op \in {"not", "compare", "load_marker", "concat", "emit_translate"}
  /\ CASE Cur.op = "not" ->
            IF Bound(Cur.target) THEN Binding(Cur.target :> BoolV(~Truth(Val(Cur.target))))
            ELSE Raising("NameError")
       [] Cur.op = "compare" ->
            IF Bound(Local("_expression")) /\ Bound(Local("_value"))
            THEN BindingAs(Cur.target :>
                             BoolV(Val(Local("_expression")) = Val(Local("_value"))),
                           [kind |-> "compare", m |-> NoMark, node |-> Cur.node,
                            target |-> Cur.target])
            ELSE Raising("NameError")
       [] Cur.op = "load_marker" ->
            Binding(Cur.target :> V("marker", Cur.name, 0, <<>>))
       [] Cur.op = "concat" ->
            IF Cur.n = 0 THEN Binding(Cur.target :> StrV(<<>>))
            ELSE IF Bound(Cur.target) THEN Binding(Cur.target :> Converted(Val(Cur.target)))
            ELSE Raising("NameError")
       [] OTHER ->
            IF Bound(Cur.target) /\ Bound(Local("_i18n_domain"))
            THEN Binding(Cur.target :>
                   StrV(Translated(IF Cur.literal THEN StrV(Cur.text) ELSE Val(Cur.target),
                                   EmptyMap,
                                   IF Cur.default = Local("None") THEN NoneV
                                   ELSE Val(Cur.default),
                                   Val(Local("_i18n_domain")))))
            ELSE Raising("NameError")
  /\ Static

\* if _condition: body / else: orelse
DoIf ==
  /\ At("if")
  /\ IF ~Bound(Cur.test) THEN Raising("NameError")
     ELSE /\ ctl' = <<Plain("block", IF Truth(Val(Cur.test)) THEN Cur.body
                                     ELSE Cur.orelse)>> \o Rest
          /\ ev' = Did("if")
          /\ UNCHANGED <<frames, dicts, fns, stream, exc, marks, module>>
  /\ Static

(***************************************************************************)
(* The programs of the model: a template program with one named macro "m"  *)
(* and a body built from a few nodes.                                      *)
(***************************************************************************)
x == <<"x">>
y == <<"y">>
z == <<"z">>
m == <<"m">>
slot == <<"s">>

One == StrV(<<"1">>)
Two == StrV(<<"2">>)
Pair == StrV(<<"p", "q">>)

\* a body that appends two units and then raises a recoverable exception
Failing ==
  Sequence(<<Text(<<"a">>), Text(<<"b">>), Content(Raise(1, "TypeError"))>>)

\* the macro "m": it writes output, leaves z in its own econtext, sets y in
\* both contexts and offers the slot "s"
MacroM ==
  Macro(m, <<Text(<<"m">>),
             Define(<<Assignment(<<z>>, Const(2, One), TRUE),
                      Assignment(<<y>>, Const(3, Two), FALSE)>>, Text(<<"n">>)),
             DefineSlot(slot, Text(<<"d">>))>>)

Atoms ==
  { Text(<<"a">>),
    Text(<<" ", "h", " ", " ", "w", " ">>),
    Failing,
    Content(Raise(4, "RuntimeError")),
    Content(Name(5, x)),
    Content(Expr(6, "Negate", "const", NoneV, <<>>, "", <<Name(5, x)>>)),
    UseInternalMacro(m),
    DefineSlot(slot, Text(<<"d">>)),
    Content(Expr(30, "Equality", "const", NoneV, <<>>, "",
                 <<Name(5, x), Const(31, StrV(<<"0">>))>>)),
    Content(Expr(32, "Identity", "const", NoneV, <<>>, "",
                 <<Expr(33, "Equality", "const", NoneV, <<>>, "",
                        <<Const(34, One), Const(35, One)>>),
                   Const(36, IntV(1))>>)),
    Content(Expr(37, "Equality", "const", NoneV, <<>>, "",
                 <<Const(36, IntV(1)),
                   Expr(33, "Equality", "const", NoneV, <<>>, "",
                        <<Const(34, One), Const(35, One)>>)>>)) }

\* the list of n items a Repeat runs over
Items(n) == ListV([i \in 1..n |-> <<"p", "q">>])

Wrapped(n) ==
  { Define(<<Assignment(<<x>>, Const(7, One), local)>>, n) : local \in BOOLEAN }
  \cup
  { Define(<<Assignment(<<x>>, Const(7, One), TRUE),
             Assignment(<<second>>, Const(8, Two), TRUE)>>, n) : second \in {x, y} }
  \cup
  { Define(<<Assignment(<<x, y>>, Const(9, Pair), TRUE)>>, n),
    OnError(n, Text(<<"f">>)),
    OnError(Sequence(<<Text(<<"c">>), n, Content(Raise(10, "ValueError"))>>),
            Text(<<"f">>)),
    Translate(<<>>, n),
    Translate(<<<<>>>>, n),
    Translate(<<<<"i", "d">>>>, n),
    Translate(<<>>, Sequence(<<Text(<<"t", " ">>), NameBlock(<<"k">>, n)>>)),
    Domain(<<"d">>, n),
    UseMacro(Const(11, MacroV(m)), <<Slot(slot, n)>>) }
  \cup
  { Repeat(names, Const(12, Items(k)), local, <<"_">>, n) :
      names \in {<<x>>, <<x, y>>}, k \in 0..MaxItems, local \in BOOLEAN }

\* the nodes that are wrapped twice
Cores == {Text(<<"a">>), Failing, UseInternalMacro(m)}

\* a macro used with the slot filled, then the same macro called without
Refilled ==
  Sequence(<<UseMacro(Const(11, MacroV(m)), <<Slot(slot, Text(<<"o">>))>>),
             UseInternalMacro(m)>>)

\* node.expressions of a Cache node
Listed(expressions) == Expr(0, "list", "const", NoneV, <<>>, "", expressions)

\* an expression node that a Cache node lists and a lowered expression (an
\* ast.expr), each used in more than one place of a program
Kept == Const(40, One)
Lowered == Expr(41, "raw", "const", One, <<>>, "", <<>>)

\* a Cache node that lists the expression its body uses
Memo == Cache(Listed(<<Kept>>), Content(Kept))

\* bodies that use an expression again after it was cached
CacheBodies ==
  { Cache(Listed(<<Kept>>), Sequence(<<Content(Kept), Content(Kept)>>)),
    Sequence(<<Memo, Content(Kept)>>),
    Sequence(<<Content(Lowered), Content(Lowered)>>),
    Sequence(<<Content(Lowered), Content(Const(44, Two)), Content(Lowered)>>) }
  \cup
  { Sequence(<<Condition(Const(42, IntV(b)), Memo), Content(Kept)>>) : b \in 0..1 }
  \cup
  { Sequence(<<Repeat(<<x>>, Const(12, Items(k)), TRUE, <<"_">>, Memo),
               Content(Kept)>>) : k \in 0..MaxItems }

\* a second macro "c" that caches the expression, and a body that calls it
\* and then uses the expression itself
MacroC == Macro(<<"c">>, <<Memo>>)
AcrossMacros ==
  MacroProgram(<<MacroM, MacroC>>,
               <<Sequence(<<UseInternalMacro(<<"c">>), Content(Kept)>>)>>)

\* a Name block of a Translate, and Translate bodies in which the Name block
\* is inside another construct
Named == NameBlock(<<"k">>, Text(<<"a">>))

BufferBodies ==
  { Translate(<<>>, OnError(Sequence(<<Named, Content(Raise(1, "TypeError"))>>),
                            Text(<<"f">>))),
    Translate(<<>>, OnError(Sequence(<<Content(Raise(1, "TypeError")), Named>>),
                            Text(<<"f">>))),
    Translate(<<>>, UseMacro(Const(11, MacroV(m)), <<Slot(slot, Named)>>)) }
  \cup
  { Translate(<<>>, Condition(Const(42, IntV(b)), Named)) : b \in 0..1 }
  \cup
  { Translate(<<>>, Repeat(<<x>>, Const(12, Items(k)), TRUE, <<"_">>, Named)) :
      k \in 0..MaxItems }

\* a Define of x that is left before a macro is called
Departed ==
  { Sequence(<<Define(<<Assignment(<<x>>, Const(7, One), local)>>, Text(<<"a">>)),
               call>>) :
      local \in BOOLEAN,
      call \in {UseInternalMacro(m), UseMacro(Const(11, MacroV(m)), <<>>)} }

Bodies ==
  Atoms \cup {Refilled} \cup UNION {Wrapped(n) : n \in Atoms}
        \cup UNION {Wrapped(n) : n \in UNION {Wrapped(a) : a \in Cores}}
        \cup CacheBodies \cup BufferBodies \cup Departed

Programs ==
  {MacroProgram(<<MacroM>>, <<body>>) : body \in Bodies} \cup {AcrossMacros}

\* the econtext a render call is given: the defaults, the repeat
\* collaborator and possibly a value for x
Given(present) ==
  [k \in defaults \cup {RepeatKey} \cup (IF present THEN {x} ELSE {}) |->
     IF k = x THEN StrV(<<"0">>) ELSE ExtV(k)]

(***************************************************************************)
(* The specification of a render call of a compiled program.               *)
(***************************************************************************)
\* the module namespace after the module's statements ran: _marker = object()
ModuleInit == Local("_marker") :> MarkerV

Init ==
  \E program \in Programs, present \in BOOLEAN :
    /\ code = Compile(program).functions
    /\ ctl = IF <<"render">> \in DOMAIN code
             THEN <<Plain("function", code[<<"render">>])>> ELSE <<>>
    /\ frames = <<Frame(1, 2, 0)>>
    /\ dicts = <<Given(present), EmptyMap>>
    /\ fns = <<>>
    /\ stream = <<>>
    /\ exc = ""
    /\ marks = <<>>
    /\ ev = Did("init")
    /\ cache = EmptyMap
    /\ emitted = <<>>
    /\ compiled = <<>>
    /\ template = program
    /\ compiler = Compile(program).c
    /\ module = ModuleInit
    /\ turn = 1
    /\ parked = <<>>

Next ==
  \/ DoAppend \/ DoAppendVar \/ DoConvert \/ Skip
  \/ DoEval \/ DoAssign \/ DoAssignConst \/ DoBindAppend \/ DoLoadDefaults
  \/ DoExpression
  \/ DoBackup \/ DoStore \/ DoStoreNone \/ DoRestore
  \/ DoTry \/ TryEnd \/ BlockEnd \/ Unwind \/ Catch \/ DoLen \/ DoTruncate
  \/ DoNewList \/ DoMsgid \/ DoTranslate
  \/ DoCall \/ DoInclude \/ Return \/ DoUpdate \/ DoDef \/ DoPop \/ DoSlotCall
  \/ DoRepeat \/ DoFor \/ ForNext \/ ForEnd \/ DoDecrement \/ DoSeparator
  \/ DoEnter \/ DoLeave \/ DoIf

Spec == Init /\ [][Next]_vars

(***************************************************************************)
(* The specification of one compiler instance compiling expressions: each  *)
(* step compiles one expression instance into a target through the         *)
(* expression engine, or visits a Cache node that lists it.  cache is the  *)
(* compiler's expression cache, emitted the statements of the last step.   *)
(***************************************************************************)
Expressions ==
  { Const(1, One),
    Expr(2, "string", "const", One, <<>>, "", <<>>),
    Expr(3, "Negate", "const", NoneV, <<>>, "", <<Name(5, x)>>),
    Expr(4, "Identity", "const", NoneV, <<>>, "", <<Name(5, x), Const(1, One)>>),
    Expr(6, "Equality", "const", NoneV, <<>>, "", <<Name(5, x), Const(1, One)>>),
    Expr(7, "Interpolation", "const", NoneV, <<>>, "", <<Name(5, x), Name(8, y)>>),
    Expr(9, "Marker", "const", NoneV, <<"k">>, "", <<>>),
    Expr(10, "Translate", "const", NoneV, <<"i", "d">>, "msgid", <<Const(1, One)>>),
    Expr(11, "raw", "const", One, <<>>, "", <<>>),
    Expr(12, "raw", "name", NoneV, x, "", <<>>) }

Targets == {Local("_a"), Local("_b")}

\* no node tree was given to the compiler yet
NoTemplate == Node("none", <<>>, <<>>, <<>>, NoExpr, FALSE, <<>>, <<>>)

\* the compiler's state with the expression cache as it is now
CompilerNow == [CompilerInit EXCEPT !.cache = cache]

Quiet ==
  UNCHANGED <<code, ctl, frames, dicts, fns, stream, exc, marks, ev,
              template, compiler, module, turn, parked>>

InitCompile ==
  /\ code = EmptyMap /\ ctl = <<>> /\ frames = <<>> /\ dicts = <<>>
  /\ fns = <<>> /\ stream = <<>> /\ exc = "" /\ marks = <<>>
  /\ ev = Did("init")
  /\ cache = EmptyMap
  /\ emitted = <<>>
  /\ compiled = <<>>
  /\ template = NoTemplate
  /\ compiler = CompilerInit
  /\ module = ModuleInit
  /\ turn = 1
  /\ parked = <<>>

\* self._engine(expression, target)
CompileExpression ==
  \E expression \in Expressions, target \in Targets :
    /\ Len(compiled) < MaxCompilations
    /\ cache' = Engine(expression, target, CompilerNow).c.cache
    /\ emitted' = Engine(expression, target, CompilerNow).s
    /\ compiled' = Append(compiled, [e |-> expression, target |-> target,
                                     via |-> "engine"])
    /\ Quiet

\* the visit of a Cache node that lists the expression, around a Text
CompileCache ==
  \E expression \in Expressions :
    /\ Len(compiled) < MaxCompilations
    /\ cache' = visit_Cache(Cache(Expr(0, "list", "const", NoneV, <<>>, "",
                                       <<expression>>), Text(<<"a">>)),
                            <<1>>, CompilerNow).c.cache
    /\ emitted' = visit_Cache(Cache(Expr(0, "list", "const", NoneV, <<>>, "",
                                         <<expression>>), Text(<<"a">>)),
                              <<1>>, CompilerNow).s
    /\ compiled' = Append(compiled,
                          [e |-> expression,
                           target |-> identifier("cache", <<>>, <<expression.id>>),
                           via |-> "cache"])
    /\ Quiet

NextCompile == CompileExpression \/ CompileCache

SpecCompile == InitCompile /\ [][NextCompile]_vars

(***************************************************************************)
(* Properties.  They are stated on the observer: ev.m is the mark of the   *)
(* construct the last step belongs to, with the econtext (e), the output   *)
(* (out, of the construct's own sink) and the real stream as they were     *)
(* when the construct was entered.                                         *)
(***************************************************************************)
\* the last step left a construct of this kind
Left(kind) == ev.kind = "leave" /\ ev.m.kind = kind

\* the econtext of the function that entered the construct, as it is now
Now(mark) == dicts[mark.eid]

\* the names a Define assigns
Assigned(node) ==
  UNION {{node.kids[i].names[j] : j \in 1..Len(node.kids[i].names)} :
           i \in 1..(Len(node.kids) - 1)}

\* the names of a Repeat or an Assignment
NamesOf(node) == {node.names[i] : i \in 1..Len(node.names)}

\* the number of items a Repeat of the model runs over
ItemCount(node) == Len(node.expression.v.l)

\* name has in d the binding it had in e
SameBinding(name, e, d) ==
  IF name \in DOMAIN e THEN name \in DOMAIN d /\ d[name] = e[name]
  ELSE name \notin DOMAIN d

\* C1 (as stated): a name a Define assigns that was absent from econtext
\* before the Define's statements ran is absent after its last statement.
C1_ShadowRestore ==
  Left("Define") =>
    \A name \in Assigned(ev.m.node) :
      name \notin DOMAIN ev.m.e => name \notin DOMAIN Now(ev.m)

\* C2 (as stated): a name a Define assigns that had the value v in econtext
\* before entry has the value v again after the Define is left.
C2_ReversibleShadowing ==
  Left("Define") =>
    \A name \in Assigned(ev.m.node) :
      name \in DOMAIN ev.m.e =>
        name \in DOMAIN Now(ev.m) /\ Now(ev.m)[name] = ev.m.e[name]

\* C3 (as stated): when the body of an OnError raised a recoverable
\* exception, the output after the construct is the output before the body
\* followed by exactly the units of the fallback (here a Text: one unit).
C3_OnErrorRollback ==
  (Left("OnError") /\ ev.m.tag = "except" /\ ev.m.node.kids[2].kind = "Text") =>
    SinkContent(ev.m.sink) = Append(ev.m.out, ev.m.node.kids[2].value)

\* n times the unit, with the separator between two of them
RECURSIVE Interleaved(_, _, _)
Interleaved(n, unit, separator) ==
  IF n = 0 THEN <<>>
  ELSE IF n = 1 THEN <<unit>>
  ELSE <<unit, separator>> \o Interleaved(n - 1, unit, separator)

\* C4: a Repeat over N > 0 items appends its whitespace exactly N-1 times:
\* after the statements of an item the whitespace is appended if and only if
\* another item follows, so once between two items and never after the last.
C4_RepeatSeparators ==
  /\ ev.kind = "separator" => (ev.due <=> ev.left > 0)
  /\ (Left("Repeat") /\ ItemCount(ev.m.node) > 0) =>
       /\ ev.m.n = ItemCount(ev.m.node) - 1
       /\ ev.m.node.kids[1].kind = "Text" =>
            SinkContent(ev.m.sink) =
              ev.m.out \o Interleaved(ItemCount(ev.m.node),
                                      ev.m.node.kids[1].value, ev.m.node.value)

\* C4 witness: a Repeat over two items was left, with one whitespace appended
C4_Witness ==
  Left("Repeat") /\ ItemCount(ev.m.node) = 2 /\ ev.m.n = 1

\* C5 (as stated): after all statements of a Repeat over an empty iterable
\* have run, each loop variable is in econtext with the value None, and no
\* whitespace was appended.
C5_EmptyRepeat_Stated ==
  (Left("Repeat") /\ ItemCount(ev.m.node) = 0) =>
    /\ \A name \in NamesOf(ev.m.node) :
         name \in DOMAIN Now(ev.m) /\ Now(ev.m)[name] = NoneV
    /\ SinkContent(ev.m.sink) = ev.m.out

\* C5 (amended): for a Repeat over an empty iterable each loop variable is
\* in econtext with the value None when the loop ends; the statements after
\* the loop then give each loop variable the binding it had before the
\* Repeat (absent if it was absent), and no whitespace was appended.
C5_EmptyRepeat ==
  /\ (ev.kind = "for_end" /\ marks # <<>> /\ Head(marks).kind = "Repeat"
      /\ ItemCount(Head(marks).node) = 0) =>
       \A name \in NamesOf(Head(marks).node) :
         name \in DOMAIN Now(Head(marks)) /\ Now(Head(marks))[name] = NoneV
  /\ (Left("Repeat") /\ ItemCount(ev.m.node) = 0) =>
       /\ \A name \in NamesOf(ev.m.node) : SameBinding(name, ev.m.e, Now(ev.m))
       /\ ev.m.n = 0
       /\ SinkContent(ev.m.sink) = ev.m.out

\* C5 witness: a Repeat over no item was left, its loop variable x absent as
\* it was before
C5_Witness ==
  /\ Left("Repeat") /\ ItemCount(ev.m.node) = 0
  /\ x \in NamesOf(ev.m.node) /\ x \notin DOMAIN ev.m.e /\ x \notin DOMAIN Now(ev.m)

\* C7 (as stated): from the moment a Translate whose own sink is the real
\* output is entered until its translate call, the real output is neither
\* appended to nor truncated; the translate call then appends one unit.
C7_TranslateRedirect ==
  \A i \in 1..Len(marks) :
    (marks[i].kind = "Translate" /\ marks[i].sink = AppendId) =>
      \/ stream = marks[i].stream
      \/ /\ ev.kind = "translate"
         /\ ev.m.path = marks[i].path /\ ev.m.frame = marks[i].frame
         /\ Len(stream) = Len(marks[i].stream) + 1

\* the words of a text: its maximal runs of characters that are not whitespace
RECURSIVE Words(_, _)
Words(text, word) ==
  IF text = <<>> THEN (IF word = <<>> THEN <<>> ELSE <<word>>)
  ELSE IF IsSpace(Head(text))
  THEN (IF word = <<>> THEN <<>> ELSE <<word>>) \o Words(Tail(text), <<>>)
  ELSE Words(Tail(text), Append(word, Head(text)))

\* the words, one space between two of them
RECURSIVE Spaced(_)
Spaced(words) ==
  IF words = <<>> THEN <<>>
  ELSE IF Len(words) = 1 THEN words[1]
  ELSE words[1] \o <<" ">> \o Spaced(Tail(words))

\* the names of the Name nodes that belong to the translation block of a
\* Translate with this body
RECURSIVE BlockNames(_)
BlockNames(node) ==
  IF node.kind = "Translate" THEN {}
  ELSE (IF node.kind = "Name" THEN {node.name} ELSE {})
       \cup UNION {BlockNames(node.kids[i]) : i \in 1..Len(node.kids)}

\* the text buffered in a list variable of the running function
Buffered(list) == join(Val(list).l)

\* the translation domain in force in a function: the name of the innermost
\* Domain it has entered, None outside of any
ActiveDomain(frame) ==
  LET open == SelectSeq(marks, LAMBDA k : k.kind = "Domain" /\ k.frame = frame)
  IN  IF open = <<>> THEN NoneV ELSE StrV(Head(open).node.name)

\* what C8 says of the mapping and the domain of a translate call
MappingAndDomain ==
  LET names == BlockNames(ev.m.node.kids[1]) IN
  /\ ev.none <=> names = {}
  /\ DOMAIN ev.mapping = names
  /\ \A name \in names :
       ev.mapping[name] = Buffered(TranslationStream(ev.m.path, name))
  /\ ev.domain = ActiveDomain(ev.m.frame)

\* the body text of the Translate whose call was just made, whitespace
\* reduced and trimmed
BodyText == Spaced(Words(Buffered(identifier("stream", <<>>, ev.m.path)), <<>>))

\* C8 (as stated): the translate call gets as message id the node's literal
\* id if it has one, else the buffered body text with whitespace reduced and
\* trimmed; as default a value equal to that message id; as mapping none
\* without Name sub-blocks, else each name's joined buffer; and the active
\* domain.
C8_TranslateArguments_Stated ==
  ev.kind = "translate" =>
    /\ ev.msgid = (IF ev.m.node.msgid # <<>> /\ ev.m.node.msgid[1] # <<>>
                   THEN StrV(ev.m.node.msgid[1]) ELSE StrV(BodyText))
    /\ ev.default = ev.msgid
    /\ MappingAndDomain

\* C8 (amended): the message id is the node's literal id if the node has a
\* non-empty one, else the reduced and trimmed body text; the default is
\* always the reduced and trimmed body text, so it differs from the message
\* id when a literal id is given; mapping and domain as stated.
C8_TranslateArguments ==
  ev.kind = "translate" =>
    /\ ev.msgid = (IF ev.m.node.msgid # <<>> /\ ev.m.node.msgid[1] # <<>>
                   THEN StrV(ev.m.node.msgid[1]) ELSE StrV(BodyText))
    /\ ev.default = StrV(BodyText)
    /\ MappingAndDomain

\* C8 witness: a translate call with a literal id, a default that differs
\* from it and whitespace that was reduced
C8_Witness ==
  /\ ev.kind = "translate"
  /\ ev.m.node.msgid = <<<<"i", "d">>>>
  /\ ev.msgid = StrV(<<"i", "d">>)
  /\ ev.default = StrV(<<"h", " ", "w">>)

\* C9: a macro call runs the callee on a new copy of the caller's econtext
\* and on the caller's rcontext itself; after the merge that follows the
\* call, the caller's econtext is its value just before the call overridden
\* by the entries of rcontext.
C9_MacroIsolation ==
  /\ ev.kind \in {"call", "include"} =>
       /\ F.e # frames[Depth - 1].e
       /\ E = dicts[frames[Depth - 1].e]
       /\ F.r = frames[Depth - 1].r
  /\ ev.kind = "update" => E = R @@ ev.m.e

\* C9 witness: after a call and its merge the caller has y from rcontext and
\* not the z that the callee left in its own econtext
C9_Witness ==
  /\ ev.kind = "update"
  /\ y \notin DOMAIN ev.m.e /\ y \in DOMAIN E /\ E[y] = R[y]
  /\ z \notin DOMAIN E
  /\ \E i \in 1..Len(dicts) : z \in DOMAIN dicts[i]

\* the reserved key of a slot
SlotKey(name) == <<"_", "s", "l", "o", "t", "_">> \o name

\* C10: a DefineSlot whose reserved key is in econtext removes the key and
\* calls the override with a new copy of econtext, and its default body does
\* not run; when the key is absent only the default body runs.  Exactly one
\* of the two runs.
C10_SlotSelection ==
  /\ ev.kind = "slot_call" =>
       /\ marks[2].kind = "DefineSlot"
       /\ SlotKey(marks[2].node.name) \in DOMAIN marks[2].e
       /\ SlotKey(marks[2].node.name) \notin DOMAIN Now(marks[2])
       /\ F.e # marks[2].eid
       /\ E = Now(marks[2])
  /\ Left("DefineSlot") =>
       ev.m.tag = (IF SlotKey(ev.m.node.name) \in DOMAIN ev.m.e
                   THEN "override" ELSE "except")

\* C10 witness: a DefineSlot was left after its override ran
C10_Witness ==
  /\ Left("DefineSlot") /\ ev.m.tag = "override"
  /\ SlotKey(ev.m.node.name) \in DOMAIN ev.m.e

\* the last compilation and the ones before it
Last == compiled[Len(compiled)]
Earlier == 1..(Len(compiled) - 1)

\* C6 (as stated): when the expression instance of the last compilation was
\* compiled before in this compiler, the last compilation emitted a single
\* assignment from the variable assigned before to its target.
C6_CacheReuse_Stated ==
  (compiled # <<>> /\ Last.via = "engine"
   /\ \E j \in Earlier : compiled[j].e = Last.e) =>
    \E j \in Earlier :
      compiled[j].e = Last.e /\ emitted = <<Assign(Last.target, compiled[j].target)>>

\* the compilations that put their expression into the cache: the first
\* compilation of a raw lowered expression and the first visit of a Cache
\* node that lists the expression
Caching(j) ==
  /\ compiled[j].via = "cache" \/ compiled[j].e.kind = "raw"
  /\ \A i \in 1..(j - 1) : ~(compiled[i].e = compiled[j].e
                             /\ (compiled[i].via = "cache"
                                 \/ compiled[i].e.kind = "raw"))

\* C6 (amended): a second compilation emits the single assignment from the
\* cached variable exactly for a cached expression: a raw lowered expression
\* compiled before, or an expression listed by a Cache node visited before.
\* An expression node or string compiled twice outside of a Cache node is
\* evaluated again.
C6_CacheReuse ==
  (compiled # <<>> /\ Last.via = "engine") =>
    IF \E j \in Earlier : compiled[j].e = Last.e /\ Caching(j)
    THEN \E j \in Earlier :
           /\ compiled[j].e = Last.e /\ Caching(j)
           /\ emitted = <<Assign(Last.target, compiled[j].target)>>
    ELSE \E i \in 1..Len(emitted) : emitted[i].op # "assign"

\* C6 witness: a raw lowered expression compiled a second time gave the
\* single assignment from the first target
C6_Witness ==
  /\ Len(compiled) = 2 /\ Last.via = "engine" /\ Last.e.kind = "raw"
  /\ compiled[1].e = Last.e /\ compiled[1].via = "engine"
  /\ emitted = <<Assign(Last.target, compiled[1].target)>>

(***************************************************************************)
(* The specification of the name rewrite: one compiler instance compiles   *)
(* one expression whose engine statements read or bind one name.           *)
(***************************************************************************)
RewriteNames ==
  { <<"l","e","n">>, <<"s","t","r">>, <<"s","t","r","e","a","m">>,
    <<"a","p","p","e","n","d">>, <<"d","e","c","o","d","e">>,
    <<"m","a","x">>, <<"i","d">>, <<"_","p","r","i","v","a","t","e">>,
    <<"_">>, x, y, RepeatKey }

\* the expressions around a read (ctx "load") or a write (ctx "store") of name
Rewritable(name, ctx) ==
  LET e == IF ctx = "load" THEN Name(20, name) ELSE Write(20, name, One) IN
  { e,
    [e EXCEPT !.kind = "raw"],
    Expr(21, "Negate", "const", NoneV, <<>>, "", <<e>>),
    Expr(22, "Interpolation", "const", NoneV, <<>>, "", <<e>>) }

\* self._engine(expression, target) for an expression that names a variable
CompileName ==
  \E name \in RewriteNames, ctx \in {"load", "store"}, target \in Targets :
    \E expression \in Rewritable(name, ctx) :
      /\ compiled = <<>>
      /\ cache' = Engine(expression, target, CompilerNow).c.cache
      /\ emitted' = Engine(expression, target, CompilerNow).s
      /\ compiled' = <<[e |-> expression, target |-> target, via |-> "engine",
                        name |-> name, ctx |-> ctx]>>
      /\ Quiet

NextRewrite == CompileName

SpecRewrite == InitCompile /\ [][NextRewrite]_vars

\* the statements of the last compilation that name a variable
Naming == {i \in 1..Len(emitted) : emitted[i].op = "eval"
                                   /\ emitted[i].sem \in {"name", "store"}}

Underscored(name) == name # <<>> /\ Head(name) = "_"

\* C11 (as stated): in the statements the expression compiler returns, a
\* read of a host builtin name such as len is a lookup in the dynamic
\* context with the builtin as fallback, a read of a name that starts with
\* an underscore is untouched, a write to a name such as x is a write to
\* the dynamic context, and a read of any other name is a fetch from the
\* dynamic context with no fallback.
C11_NameRewrite_Stated ==
  \A i \in Naming :
    LET s == emitted[i] IN
    /\ (s.sem = "name" /\ Underscored(s.name)) => s.ctx = "load"
    /\ (s.sem = "name" /\ ~Underscored(s.name) /\ s.name \in global_fallback) =>
         s.ctx = "econtext_get"
    /\ (s.sem = "name" /\ ~Underscored(s.name) /\ s.name \notin global_fallback) =>
         s.ctx = "load_econtext"
    /\ (s.sem = "store" /\ ~Underscored(s.name)
        /\ s.name \notin COMPILER_INTERNALS_OR_DISALLOWED) =>
         s.ctx = "store_econtext"

\* C11 (amended): a name that starts with an underscore or is one of the
\* compiler-internal names (len and str among them) is untouched, read or
\* written; of the other names a write is a write to the dynamic context, a
\* read of a host builtin name a lookup in the dynamic context with the
\* builtin as fallback, and any other read a fetch with no fallback.  Every
\* statement that names a variable is rewritten, and nothing else changes.
C11_NameRewrite ==
  /\ compiled # <<>> => Naming # {}
  /\ \A i \in Naming :
       LET s == emitted[i] IN
       /\ s.name = compiled[1].name
       /\ s.ctx =
            (IF Underscored(s.name) \/ s.name \in COMPILER_INTERNALS_OR_DISALLOWED
             THEN (IF s.sem = "store" THEN "store" ELSE "load")
             ELSE IF s.sem = "store" THEN "store_econtext"
             ELSE IF s.name \in global_fallback THEN "econtext_get"
             ELSE "load_econtext")

\* C11 witness: a read of len under a negation was compiled and is untouched
C11_Witness ==
  /\ compiled # <<>> /\ compiled[1].e.kind = "Negate"
  /\ \E i \in Naming : /\ emitted[i].name = <<"l","e","n">>
                       /\ emitted[i].sem = "name" /\ emitted[i].ctx = "load"

(***************************************************************************)
(* The specification of Compiler.__call__ on a node tree: one compiler     *)
(* instance compiles one tree.  compiler is the instance's state when the  *)
(* call has returned or was aborted by an exception, code the functions    *)
(* of the module it returned (none after an exception).                    *)
(***************************************************************************)
stream_ == <<"s","t","r","e","a","m">>
len_ == <<"l","e","n">>
nameK == <<"k">>
nameJ == <<"j">>

\* the nodes whose compilation is looked at
Units ==
  { Define(<<Assignment(<<n>>, Const(7, One), TRUE)>>, Text(<<"a">>)) :
      n \in {x, stream_, len_, <<"a","p","p","e","n","d">>, <<"s","t","r">>} }
  \cup
  { Define(<<Assignment(<<n1>>, Const(7, One), TRUE),
             Assignment(<<n2>>, Const(8, Two), TRUE)>>, Text(<<"a">>)) :
      n1 \in {x, stream_}, n2 \in {y, len_} }
  \cup
  { Define(<<Assignment(<<x, n>>, Const(9, Pair), TRUE)>>, Text(<<"a">>)) :
      n \in {y, <<"e","c","o","n","t","e","x","t">>} }
  \cup
  { Repeat(names, Const(12, Items(1)), TRUE, <<"_">>, Text(<<"a">>)) :
      names \in {<<x>>, <<stream_>>, <<len_>>, <<x, y>>, <<x, stream_>>} }
  \cup
  { Text(<<"a">>),
    NameBlock(nameK, Text(<<"a">>)),
    NameBlock(nameK, NameBlock(nameJ, Text(<<"a">>))),
    Translate(<<>>, Sequence(<<NameBlock(nameK, Text(<<"a">>)),
                               NameBlock(nameJ, Text(<<"b">>))>>)),
    Translate(<<>>, Sequence(<<NameBlock(nameK, Text(<<"a">>)),
                               NameBlock(nameK, Text(<<"b">>))>>)),
    Translate(<<>>, NameBlock(nameK, NameBlock(nameK, Text(<<"a">>)))),
    Translate(<<>>, Sequence(<<NameBlock(nameK, Text(<<"a">>)),
                               Translate(<<>>, NameBlock(nameK, Text(<<"b">>)))>>)),
    Translate(<<>>, NameBlock(nameK, Translate(<<>>, NameBlock(nameK, Text(<<"a">>))))),
    Sequence(<<Translate(<<>>, NameBlock(nameK, Text(<<"a">>))),
               Translate(<<>>, NameBlock(nameK, Text(<<"b">>)))>>),
    Sequence(<<Translate(<<>>, NameBlock(nameK, Text(<<"a">>))),
               NameBlock(nameK, Text(<<"b">>))>>) }

\* a unit as it is, or inside another construct
Placed(u) ==
  { u,
    Sequence(<<Text(<<"c">>), u>>),
    Define(<<Assignment(<<z>>, Const(13, One), TRUE)>>, u),
    Repeat(<<z>>, Const(14, Items(1)), TRUE, <<"_">>, u),
    OnError(u, Text(<<"f">>)),
    Translate(<<>>, u) }

Trees == {MacroProgram(<<MacroM>>, <<body>>) : body \in UNION {Placed(u) : u \in Units}}

\* Compiler(engine)(program)
CompileTree ==
  \E tree \in Trees :
    /\ template = NoTemplate
    /\ template' = tree
    /\ compiler' = Compile(tree).c
    /\ code' = Compile(tree).functions
    /\ UNCHANGED <<ctl, frames, dicts, fns, stream, exc, marks, ev,
                   cache, emitted, compiled, module, turn, parked>>

NextVisit == CompileTree

SpecVisit == InitCompile /\ [][NextVisit]_vars

\* the call of the compiler has ended: it returned or was aborted
Called == template # NoTemplate

\* the nodes of a tree
RECURSIVE Subnodes(_)
Subnodes(node) ==
  {node} \cup UNION {Subnodes(node.kids[i]) : i \in 1..Len(node.kids)}

\* the disallowed names the assignments of the tree's Define nodes bind
BadDefines(tree) ==
  UNION {NamesOf(n) : n \in {a \in Subnodes(tree) : a.kind = "Assignment"}}
  \cap COMPILER_INTERNALS_OR_DISALLOWED

\* the disallowed names the tree's Repeat nodes bind
BadRepeats(tree) ==
  UNION {NamesOf(n) : n \in {r \in Subnodes(tree) : r.kind = "Repeat"}}
  \cap COMPILER_INTERNALS_OR_DISALLOWED

\* the names of the Name nodes that are under no Translate
RECURSIVE OutsideNames(_)
OutsideNames(node) ==
  IF node.kind = "Translate" THEN {}
  ELSE (IF node.kind = "Name" THEN {node.name} ELSE {})
       \cup UNION {OutsideNames(node.kids[i]) : i \in 1..Len(node.kids)}

\* how many Name nodes with this name belong to the block of a Translate
\* with this body
RECURSIVE BlockCount(_, _)
RECURSIVE Sum(_, _, _)
Sum(kids, i, name) ==
  IF i > Len(kids) THEN 0 ELSE BlockCount(kids[i], name) + Sum(kids, i + 1, name)
BlockCount(node, name) ==
  IF node.kind = "Translate" THEN 0
  ELSE (IF node.kind = "Name" /\ node.name = name THEN 1 ELSE 0)
       + Sum(node.kids, 1, name)

\* the names used twice in one Translate block
Duplicates(tree) ==
  {name \in {nameK, nameJ} :
     \E t \in Subnodes(tree) :
       t.kind = "Translate" /\ BlockCount(t.kids[1], name) > 1}

\* C12: when a Define of the tree assigns a disallowed name, at whatever
\* position among its assignments or in a tuple of names, and the tree has
\* no other fault, the call is aborted by a TranslationError that names such
\* a variable, and the caller gets no statement of the program.
C12_DisallowedDefine ==
  (Called /\ BadDefines(template) # {}
   /\ OutsideNames(template) = {} /\ Duplicates(template) = {}) =>
    /\ compiler.err.type = "TranslationError"
    /\ compiler.err.arg \in BadDefines(template)
    /\ code = EmptyMap

\* C12 witness: the second assignment of a Define binds len and the call was
\* aborted with the error naming len
C12_Witness ==
  /\ Called /\ compiler.err = [type |-> "TranslationError", arg |-> len_]
  /\ \E d \in Subnodes(template) :
       /\ d.kind = "Define" /\ Len(d.kids) = 3
       /\ d.kids[1].names = <<x>> /\ d.kids[2].names = <<len_>>
  /\ code = EmptyMap

\* C13 (as stated): whenever the call of the compiler has returned or was
\* aborted by a compile-time error, the scope stack holds its one initial
\* entry again.
C13_ScopeStack ==
  Called => Len(compiler.scopes) = 1

\* C14 (as stated): a Name block compiled while no Translate is open aborts
\* the call with the compiler's TranslationError carrying the block's name.
C14_NameOutsideTranslate ==
  (Called /\ OutsideNames(template) # {} /\ BadDefines(template) = {}) =>
    /\ compiler.err.type = "TranslationError"
    /\ compiler.err.arg \in OutsideNames(template)

\* C15: the names recorded for a Translate block are distinct: of a tree
\* with no other fault the call is aborted by the duplicate-name error,
\* carrying the name, exactly when a name is used twice in one Translate
\* block; the same name in a sibling, an enclosing or a nested Translate is
\* accepted.
C15_TranslationNames ==
  (Called /\ BadDefines(template) = {} /\ BadRepeats(template) = {}
   /\ OutsideNames(template) = {}) =>
    IF Duplicates(template) # {}
    THEN /\ compiler.err.type = "TranslationError"
         /\ compiler.err.arg \in Duplicates(template)
    ELSE Ok(compiler) /\ <<"render">> \in DOMAIN code

\* C15 witness: the name k was used twice in one block, the second time
\* inside the first Name block, and the call was aborted
C15_Witness ==
  /\ Called /\ compiler.err = [type |-> "TranslationError", arg |-> nameK]
  /\ Translate(<<>>, NameBlock(nameK, NameBlock(nameK, Text(<<"a">>))))
       \in Subnodes(template)

\* C18 (as stated): a Repeat whose loop variable is a disallowed name aborts
\* the call with an error carrying the name, as a Define does.
C18_DisallowedEverywhere ==
  (Called /\ BadRepeats(template) # {}
   /\ OutsideNames(template) = {} /\ Duplicates(template) = {}) =>
    /\ ~Ok(compiler)
    /\ compiler.err.arg \in BadRepeats(template) \cup BadDefines(template)

\* C17 (as stated): the handler of an OnError that writes to the real
\* output truncates the output to the length it had when this OnError was
\* entered, also when an inner OnError ran inside its body: right after the
\* truncation the output is what it was at the entry of the construct.
C17_NestedOnError ==
  (ev.kind = "truncate" /\ marks # <<>> /\ Head(marks).kind = "OnError"
   /\ Head(marks).sink = AppendId /\ Head(marks).frame = Depth) =>
    stream = Head(marks).stream

\* the value of an expression of the model in the current econtext
RECURSIVE ValueOf(_)
ValueOf(e) ==
  CASE e.kind \in {"Identity", "Equality"} ->
         BoolV(ValueOf(e.sub[1]) = ValueOf(e.sub[2]))
    [] e.kind = "Negate" -> BoolV(~Truth(ValueOf(e.sub[1])))
    [] e.sem = "name" -> E[e.name]
    [] OTHER -> e.v

\* C19 (as stated): the statements of an Identity or Equality node leave in
\* the target the result of comparing the value of the first operand with
\* the value of the second, also when an operand is itself a comparison.
C19_ComparisonResult ==
  ev.kind = "compare" =>
    Val(ev.target) = BoolV(ValueOf(ev.node.sub[1]) = ValueOf(ev.node.sub[2]))

\* C20 (as stated): after the statements of a UseMacro have run, the
\* econtext of the function that ran them holds none of the reserved keys
\* _slot_<name> of the slots this UseMacro fills.
C20_SlotScope ==
  Left("UseMacro") =>
    \A i \in 1..Len(ev.m.node.kids) :
      SlotKey(mangle(ev.m.node.kids[i].name)) \notin DOMAIN Now(ev.m)

(***************************************************************************)
(* The specification of render calls that overlap in time.  Three calls of *)
(* the module's render function are made, each with its own econtext,      *)
(* rcontext and output list.  Call 1 runs alone, from the first statement  *)
(* to the last; calls 2 and 3 then run interleaved, a switch being         *)
(* possible between any two statements.  Call 2 is given the econtext of   *)
(* call 1.  The variables of Part 2 hold the state of the call that runs,  *)
(* parked the state of the others; module is shared by all of them.        *)
(***************************************************************************)
\* a render call before its first statement
Started(functions, present) ==
  [ctl |-> <<Plain("function", functions[<<"render">>])>>,
   frames |-> <<Frame(1, 2, 0)>>, dicts |-> <<Given(present), EmptyMap>>,
   fns |-> <<>>, stream |-> <<>>, exc |-> "", marks |-> <<>>,
   ev |-> Did("init"), given |-> present]

\* the entry of parked that stands for the call that runs
Blank(present) ==
  [ctl |-> <<>>, frames |-> <<>>, dicts |-> <<>>, fns |-> <<>>,
   stream |-> <<>>, exc |-> "", marks |-> <<>>, ev |-> Did("init"),
   given |-> present]

\* the state of the call that runs
Saved ==
  [ctl |-> ctl, frames |-> frames, dicts |-> dicts, fns |-> fns,
   stream |-> stream, exc |-> exc, marks |-> marks, ev |-> ev,
   given |-> parked[turn].given]

\* the programs rendered concurrently
RenderPrograms ==
  {MacroProgram(<<MacroM>>, <<body>>) :
     body \in Atoms \cup {Refilled}
              \cup {w \in Wrapped(Failing) \cup Wrapped(UseInternalMacro(m)) :
                      w.kind # "Repeat"}
              \cup {Repeat(<<x, y>>, Const(12, Items(2)), FALSE, <<"_">>,
                           UseInternalMacro(m)),
                    Repeat(<<x>>, Const(12, Items(1)), TRUE, <<"_">>, Failing)}
              \cup {Sequence(<<Condition(Const(42, IntV(b)), Memo),
                                Content(Kept)>>) : b \in 0..1}
              \cup {OnError(Sequence(<<Text(<<"c">>), n,
                                       Content(Raise(10, "ValueError"))>>),
                            Text(<<"f">>)) :
                      n \in {OnError(Failing, Text(<<"f">>)),
                             OnError(Text(<<"a">>), Text(<<"f">>))}}}

InitRender ==
  \E program \in RenderPrograms, present \in BOOLEAN, other \in BOOLEAN :
    /\ code = Compile(program).functions
    /\ ctl = Started(code, present).ctl
    /\ frames = Started(code, present).frames
    /\ dicts = Started(code, present).dicts
    /\ fns = <<>>
    /\ stream = <<>>
    /\ exc = ""
    /\ marks = <<>>
    /\ ev = Did("init")
    /\ cache = EmptyMap
    /\ emitted = <<>>
    /\ compiled = <<>>
    /\ template = program
    /\ compiler = Compile(program).c
    /\ module = ModuleInit
    /\ turn = 1
    /\ parked = <<Blank(present), Started(code, present), Started(code, other)>>

\* the call that runs is suspended between two statements and another call
\* that has not ended goes on
Switch ==
  \E j \in 2..3 :
    /\ j # turn
    /\ turn = 1 => ctl = <<>>
    /\ parked[j].ctl # <<>>
    /\ ctl' = parked[j].ctl
    /\ frames' = parked[j].frames
    /\ dicts' = parked[j].dicts
    /\ fns' = parked[j].fns
    /\ stream' = parked[j].stream
    /\ exc' = parked[j].exc
    /\ marks' = parked[j].marks
    /\ ev' = parked[j].ev
    /\ parked' = [parked EXCEPT ![turn] = Saved, ![j] = Blank(parked[j].given)]
    /\ turn' = j
    /\ UNCHANGED <<code, cache, emitted, compiled, template, compiler, module>>

NextRender == Next \/ Switch

SpecRender == InitRender /\ [][NextRender]_vars

\* the state of call i, and whether the call has ended (it returned, or an
\* exception left it)
CallState(i) == IF turn = i THEN Saved ELSE parked[i]
Ended(i) == IF turn = i THEN ctl = <<>> ELSE parked[i].ctl = <<>>

\* C16: a render call that ran interleaved with another one ends with the
\* output, the contexts (every mapping object of the call) and the outcome
\* of the call that was given the same econtext and ran alone, and no call
\* writes the module namespace, the only state the calls share.
C16_ConcurrentRender ==
  /\ module = ModuleInit
  /\ \A i \in 2..3 :
       (Ended(1) /\ Ended(i) /\ CallState(i).given = CallState(1).given) =>
         /\ CallState(i).stream = CallState(1).stream
         /\ CallState(i).dicts = CallState(1).dicts
         /\ CallState(i).exc = CallState(1).exc

\* C16 witness: call 2 ended with output while call 3, given another
\* econtext, was suspended in the middle of its statements after it had
\* written output of its own
C16_Witness ==
  /\ turn = 2 /\ ctl = <<>> /\ exc = "" /\ stream # <<>>
  /\ parked[1].ctl = <<>> /\ parked[1].stream = stream
  /\ parked[3].ctl # <<>> /\ parked[3].stream # <<>>
  /\ parked[3].given # parked[1].given

(***************************************************************************)
(* Cached variables, named buffers and the propagating context.            *)
(***************************************************************************)
\* the expressions the compiler's cache maps to this variable
CachedIn(id) == {e \in DOMAIN compiler.cache : compiler.cache[e] = id}

\* C21 (as stated): whenever the next statement of the running function
\* reads a cached variable in place of evaluating an expression e, the
\* variable is bound in that function (it was assigned on the path taken)
\* and holds the value of e: no other expression was evaluated into it.
C21_CachedVariable ==
  (At("assign") /\ CachedIn(Cur.source) # {}) =>
    /\ Bound(Cur.source)
    /\ \A e \in CachedIn(Cur.source) : Val(Cur.source) = e.v

\* C22 (as stated): when the translate call of a Translate block is the
\* next statement to run, every buffer its interpolation mapping joins, one
\* per Name sub-block of the block, is bound in the running function,
\* whatever path the body took.
C22_BuffersInitialised ==
  At("translate") =>
    \A name \in DOMAIN Cur.mapping : Bound(Cur.mapping[name])

\* the names a tree assigns in the propagating context: those of its
\* non-local assignments and non-local loops
Propagated(tree) ==
  UNION {NamesOf(n) : n \in {a \in Subnodes(tree) :
                               a.kind \in {"Assignment", "Repeat"} /\ ~a.local}}

\* the names the macros of the program assign in the propagating context
CalleeNames ==
  UNION {Propagated(template.kids[i]) :
           i \in {j \in 1..Len(template.kids) : IsMacro(template.kids[j])}}

\* C23 (as stated): a name that a non-local assignment left in rcontext and
\* that is absent from econtext when a macro is called (the Define that
\* assigned it has been left) is still absent from econtext after the merge
\* that follows the call, unless the macro called assigns it.
C23_NoLatePollution ==
  ev.kind = "update" =>
    \A name \in DOMAIN ev.m.r \ CalleeNames :
      name \notin DOMAIN ev.m.e => name \notin DOMAIN E

====
